---- MODULE Spec2Model ----
(***************************************************************************)
(* Multi-query RAG agent (src/src/agents/multi_query.py): one request of   *)
(* MultiQueryRAGAgent.generate, the retrieve_for_queries tool, its         *)
(* ThreadPoolExecutor fan-out, and _deduplicate_chunks.                    *)
(*                                                                         *)
(* Scores are fixed-point integers (hundredths); the boost factor 0.2 is   *)
(* the fraction BOOST_NUM / BOOST_DEN.  A chunk is identified by chunk_id; *)
(* doc_id, text, metadata and ord are functions of chunk_id in one store   *)
(* and are not carried.                                                    *)
(***************************************************************************)
EXTENDS Integers, Sequences, FiniteSets, TLC

\* ---------------------------------------------------------------- bounds
MaxShortLen == 2       \* Spec, SpecToolCalls: the model supplies every list up to this length
MaxLongLen == 6        \* SpecFanOut: the model supplies lists up to this length
MaxCalls == 1          \* Spec, SpecFanOut: tool calls the model issues in one request
MaxToolCalls == 2      \* SpecToolCalls: tool calls the model issues in one request
MaxN == 2              \* SpecRetrieval: n and fts_candidates range over 1..MaxN
MaxExamples == 2       \* SpecEval: tasks in the dataset
MaxDocs == 2           \* SpecIngest: documents ingested one after the other
MaxListLen == 3        \* SpecMetrics: length of the retrieved and ground-truth lists
MaxK == 3              \* SpecMetrics: k ranges over 0..MaxK
MaxTextLen == 2        \* SpecFilterScoring: length of a filter value
MaxTurns == 3          \* SpecExpand: turns of the document
MaxVanillaCalls == 2   \* SpecVanilla: calls of retrieve_context in one request
MaxDocTokens == 4      \* SpecChunker: tokens of the text
MaxIterations == 6     \* SpecChunker: iterations of the chunking loop that are followed
MaxPoolCalls == 6      \* SpecPool: init_db_pool / close_db_pool calls of a free sequence
MaxInitCalls == 3      \* SpecTracing: agent constructions and initialisation calls

\* ------------------------------------------------------ program constants
MAX_SUB_QUERIES == 5
DEFAULT_MAX_RETURNED == 15
BOOST_NUM == 1
BOOST_DEN == 5
POOL_MAX_SIZE == 10

\* ---------------------------------------------------------- input domains
QueryStrings == {"q1", "q2"}
ChunkIds == {1, 2}
ScoresOf(c) == IF c = 1 THEN {0, 50, 60} ELSE {0, 50}
Modes == {"fts", "vector", "hybrid"}
MaxReturnedChoices == {<<>>, <<1>>}     \* absent, or an explicit max_returned

Min(a, b) == IF a <= b THEN a ELSE b
Max(a, b) == IF a >= b THEN a ELSE b
Take(s, n) == SubSeq(s, 1, Min(n, Len(s)))
Range(s) == {s[i] : i \in 1..Len(s)}

\* Score tables of a store: for each query string, the score of each chunk
\* (0: the chunk does not match the query).
ScoreTables ==
    [QueryStrings -> {t \in [ChunkIds -> {0, 50, 60}] : \A c \in ChunkIds : t[c] \in ScoresOf(c)}]

\* ORDER BY score DESC, c.id ASC over the matching chunks.
RECURSIVE RankBy(_, _)
RankBy(S, sc) ==
    IF S = {} THEN <<>>
    ELSE LET best == CHOOSE c \in S : \A d \in S :
                        sc[c] > sc[d] \/ (sc[c] = sc[d] /\ c <= d)
         IN  <<[chunk_id |-> best, score |-> sc[best]]>> \o RankBy(S \ {best}, sc)

\* retrieve_chunks(query, retrieval_params): the ranked matches, LIMIT n.
retrieve_chunks(st, query, n) ==
    Take(RankBy({c \in ChunkIds : st[query][c] > 0}, st[query]), n)

\* The query lists the model may supply.  Spec, SpecToolCalls: every list up
\* to MaxShortLen.  SpecFanOut: the empty list and, for each length from
\* MAX_SUB_QUERIES to MaxLongLen, the list alternating the query strings.
QueryLists == UNION {[1..n -> QueryStrings] : n \in 0..MaxShortLen}
Alternating(n) == [i \in 1..n |-> IF i % 2 = 1 THEN "q1" ELSE "q2"]
LongQueryLists == {<<>>} \cup {Alternating(n) : n \in MAX_SUB_QUERIES..MaxLongLen}

\* ------------------------------------------------- ordered dict of results
\* A dict[str, list] is a sequence of [query, chunks] entries with distinct
\* keys in insertion order; assigning to an existing key keeps its position.
Keys(d) == {d[i].query : i \in 1..Len(d)}
Lookup(d, q) == LET i == CHOOSE j \in 1..Len(d) : d[j].query = q IN d[i].chunks
DictSet(d, q, v) ==
    IF q \in Keys(d)
    THEN [i \in 1..Len(d) |-> IF d[i].query = q THEN [query |-> q, chunks |-> v] ELSE d[i]]
    ELSE Append(d, [query |-> q, chunks |-> v])

\* ------------------------------------------------------ _deduplicate_chunks
\* All chunks of all results, in dict order then list order (lines 59-60).
RECURSIVE Flatten(_)
Flatten(d) == IF d = <<>> THEN <<>> ELSE Head(d).chunks \o Flatten(Tail(d))

\* chunk_map after folding the occurrences (lines 56-70): entries in
\* first-seen order, each with its occurrence count and maximum score.
\* Variant: every occurrence gets an entry of its own.
MapAddNoMerge(m, ch) ==
    Append(m, [chunk_id |-> ch.chunk_id, count |-> 1, max_score |-> ch.score])

MapAdd(m, ch) ==
    IF \E i \in 1..Len(m) : m[i].chunk_id = ch.chunk_id
    THEN [i \in 1..Len(m) |->
            IF m[i].chunk_id = ch.chunk_id
            THEN [chunk_id |-> m[i].chunk_id, count |-> m[i].count + 1,
                  max_score |-> Max(m[i].max_score, ch.score)]
            ELSE m[i]]
    ELSE Append(m, [chunk_id |-> ch.chunk_id, count |-> 1, max_score |-> ch.score])

RECURSIVE FoldMap(_, _)
FoldMap(m, occ) == IF occ = <<>> THEN m ELSE FoldMap(MapAdd(m, Head(occ)), Tail(occ))

ChunkMap(d) == FoldMap(<<>>, Flatten(d))

\* boosted_score = max_score * (1.0 + boost_factor * (count - 1))  (lines 83-84)
BoostedScore(max_score, count) ==
    (max_score * (BOOST_DEN + BOOST_NUM * (count - 1))) \div BOOST_DEN

Boosted(m) == [i \in 1..Len(m) |->
                 [chunk_id |-> m[i].chunk_id,
                  score |-> BoostedScore(m[i].max_score, m[i].count)]]

\* list.sort(key=score, reverse=True): a stable sort on the score alone
\* (line 99); equal scores keep their order in the list.
RECURSIVE InsertDesc(_, _)
InsertDesc(sorted, x) ==
    IF sorted = <<>> THEN <<x>>
    ELSE IF Head(sorted).score >= x.score
         THEN <<Head(sorted)>> \o InsertDesc(Tail(sorted), x)
         ELSE <<x>> \o sorted

RECURSIVE SortByScoreDesc(_)
SortByScoreDesc(s) ==
    IF s = <<>> THEN <<>>
    ELSE InsertDesc(SortByScoreDesc(SubSeq(s, 1, Len(s) - 1)), s[Len(s)])

RECURSIVE MaxCount(_)
MaxCount(m) == IF m = <<>> THEN 0 ELSE Max(Head(m).count, MaxCount(Tail(m)))

DedupStats(d, final) ==
    LET m == ChunkMap(d) IN
    [total_before_dedup |-> Len(Flatten(d)),
     unique_chunks      |-> Len(m),
     duplicates_removed |-> Len(Flatten(d)) - Len(m),
     chunks_boosted     |-> Cardinality({i \in 1..Len(m) : m[i].count > 1}),
     max_occurrences    |-> MaxCount(m),
     chunks_returned    |-> Len(final)]

\* Variant: the sorted list is not cut to max_returned.
DeduplicateChunksNoLimit(d, max_ret) ==
    LET final == SortByScoreDesc(Boosted(ChunkMap(d)))
    IN  [chunks |-> final, stats |-> DedupStats(d, final)]

DeduplicateChunks(d, max_ret) ==
    LET final == Take(SortByScoreDesc(Boosted(ChunkMap(d))), max_ret)
    IN  [chunks |-> final, stats |-> DedupStats(d, final)]

NoStats == [total_before_dedup |-> 0, unique_chunks |-> 0, duplicates_removed |-> 0,
            chunks_boosted |-> 0, max_occurrences |-> 0, chunks_returned |-> 0]

\* ------------------------------------------------------------------- state
VARIABLES
    phase,                      \* position of the request
    store,                      \* score tables of the store (fixed)
    mode,                       \* retrieval_params["mode"]
    max_returned,               \* max_returned captured by generate (line 188)
    tool_calls,                 \* tool calls issued by the model so far
    supplied,                   \* the queries argument of the latest tool call
    queries,                    \* the tool's local `queries` after validation
    futures,                    \* one worker per submitted sub-query
    results,                    \* retrieve_all_sync's local `results`
    captured_sub_queries,       \* closure state of generate (lines 182-185)
    all_results_by_query,
    final_deduplicated_chunks,
    dedup_stats,
    tool_output,                \* what the last tool call returned to the model
    response,                   \* the AgentResponse, once built
    deadline,                   \* asyncio.wait_for around generate: none, armed, expired
    \* --- one retrieval (src/retrieval)
    corpus,                     \* per chunk: lexical rank, embedding, similarity, published_at
    chunk_speaker,              \* per chunk: speaker of its turn (turns.speaker via chunks.turn_id)
    retrieval_params,           \* mode, n, fts_candidates, filters of the retrieval
    retrieval_response,         \* what the retriever returned or raised
    \* --- evaluation run (evals/retrieval/runner.py)
    examples,                   \* the dataset: one ground-truth list per task
    k_values,                   \* args.k
    timeout,                    \* args.timeout (<<>>: None)
    eval_results,               \* run_all_evals' local `results`
    run_state,                  \* position of the run
    errors,                     \* the report's error list
    \* --- ingestion of documents (src/ingestion/pipeline.py)
    docs, turns_table, chunks_table, chunk_embeddings,   \* committed rows
    ingest,                     \* position and locals of ingest_with_turns
    \* --- tracing (src/agents/helpers.py, src/agents/vanilla.py)
    settings,                   \* langsmith_api_key, langsmith_tracing
    helpers_tracing_initialized,
    vanilla_tracing_initialized,
    processors_created,         \* OpenAIAgentsTracingProcessor objects constructed
    trace_processors,           \* the list installed by set_trace_processors
    init_calls,                 \* constructions and initialisation calls so far
    \* --- one metric computation (evals/metrics/retrieval.py)
    metric_call,                \* retrieved, ground_truth, k
    metric_result,              \* what compute_retrieval_metrics returned or raised
    \* --- one filter comparison (evals/tasks/tool_params/runner.py)
    filter_case,                \* expected filters of the case, filters the model bound
    filter_matches,             \* what _compare_filters returned
    \* --- one turn expansion (spec section 4.6)
    turn_tokens,                \* per turn: token count of its full text
    expand_call,                \* chunks (turn, score), token_budget, include_preceding_question
    expand_state,               \* position, ranked turns still to consider, turns taken, total
    \* --- HTTP error handling (src/api/*/routes.py)
    http_route,                 \* the endpoint of the two requests
    http_runs,                  \* per request: how the endpoint's try body ended
    http_responses,             \* per request: status and detail answered
    \* --- a request to the vanilla agent (src/agents/vanilla.py)
    vanilla_phase,              \* Idle, Running, Done, Failed
    vanilla_store,              \* per query string: score of each chunk (0: no match)
    question,                   \* generate's question
    vanilla_tool_queries,       \* the query of each retrieve_context call so far
    retrieved_chunks,           \* generate's local list
    vanilla_response,           \* the AgentResponse, once built
    \* --- TokenBasedChunker.chunk (src/ingestion/chunker.py)
    chunker_config,             \* min_tokens, max_tokens, overlap_tokens
    num_tokens,                 \* len(tokens) of the encoded text
    chunker_state,              \* pc, start_idx, chunk_ord, chunks, iterations
    \* --- connection pool (src/database/connection.py)
    pool,                       \* the module global _pool: 0 is None, else the pool's id
    open_pools,                 \* ids of the ConnectionPools that are open
    pools_created,              \* ConnectionPools constructed so far
    pool_program,               \* which program drives the pool
    pool_pc,                    \* that program's position
    pool_calls                  \* calls made by a free call sequence

agent == <<phase, store, mode, max_returned, tool_calls, supplied, queries, futures,
           results, captured_sub_queries, all_results_by_query,
           final_deduplicated_chunks, dedup_stats, tool_output, response, deadline>>
retrieval == <<corpus, chunk_speaker, retrieval_params, retrieval_response>>
evaluation == <<examples, k_values, timeout, eval_results, run_state, errors>>
ingestion == <<docs, turns_table, chunks_table, chunk_embeddings, ingest>>
tracing == <<settings, helpers_tracing_initialized, vanilla_tracing_initialized,
             processors_created, trace_processors, init_calls>>

metrics == <<metric_call, metric_result>>
scoring == <<filter_case, filter_matches>>
expander == <<turn_tokens, expand_call, expand_state>>
http == <<http_route, http_runs, http_responses>>
vanilla == <<vanilla_phase, vanilla_store, question, vanilla_tool_queries,
             retrieved_chunks, vanilla_response>>
chunker == <<chunker_config, num_tokens, chunker_state>>
pooling == <<pool, open_pools, pools_created, pool_program, pool_pc, pool_calls>>
others == <<metrics, scoring, expander, http, vanilla, chunker, pooling>>

vars == <<agent, retrieval, evaluation, ingestion, tracing, others>>

\* What an action of the agent request leaves alone outside the request.
outside == <<deadline, retrieval, evaluation, ingestion, tracing, others>>

closure == <<captured_sub_queries, all_results_by_query,
             final_deduplicated_chunks, dedup_stats>>
call == <<supplied, queries, futures, results>>
request == <<store, mode, max_returned>>

NoResponse == [built |-> FALSE, sub_queries |-> <<>>, chunks_per_subquery |-> <<>>,
               deduplication_stats |-> NoStats, retrieved_chunks |-> <<>>]

\* The steps of one retrieval, by mode (helpers.retrieve_chunks): a step
\* named *_conn runs inside `with get_db_connection()`.
Steps(m) ==
    CASE m = "fts"    -> <<"fts_conn">>
      [] m = "vector" -> <<"embed", "vector_conn">>
      [] m = "hybrid" -> <<"fts_conn", "embed", "rerank_conn">>

ConnSteps == {"fts_conn", "vector_conn", "rerank_conn"}

Final(f) == f.state \in {"ok", "failed"}
Running(fs) == {i \in 1..Len(fs) : ~Final(fs[i])}
ConnectionsHeld(fs) ==
    LET RECURSIVE Sum(_)
        Sum(i) == IF i = 0 THEN 0 ELSE fs[i].held + Sum(i - 1)
    IN  Sum(Len(fs))

\* A store in which q1 matches both chunks and q2 matches none.
FanOutStore == [q \in QueryStrings |->
                 [c \in ChunkIds |-> IF q = "q1" THEN (IF c = 1 THEN 60 ELSE 50) ELSE 0]]

\* A store in which chunk 2 matches both query strings and chunk 1 only q1.
SharedStore == [q \in QueryStrings |->
                 [c \in ChunkIds |-> IF c = 2 THEN 50 ELSE IF q = "q1" THEN 60 ELSE 0]]

\* generate(), lines 174-189: default max_returned, empty closure state.
InitOver(stores, modes, maxrets) ==
    /\ phase = "Idle"
    /\ store \in stores
    /\ mode \in modes
    /\ \E mr \in maxrets :
          max_returned = IF mr = <<>> THEN DEFAULT_MAX_RETURNED ELSE mr[1]
    /\ tool_calls = 0
    /\ supplied = <<>>
    /\ queries = <<>>
    /\ futures = <<>>
    /\ results = <<>>
    /\ captured_sub_queries = <<>>
    /\ all_results_by_query = <<>>
    /\ final_deduplicated_chunks = <<>>
    /\ dedup_stats = NoStats
    /\ tool_output = "none"
    /\ response = NoResponse

\* Runner.run starts the model on the question (lines 330-333).
Start ==
    /\ phase = "Idle"
    /\ phase' = "Decomposing"
    /\ UNCHANGED <<request, tool_calls, call, closure, tool_output, response, outside>>

\* The request is suspended on a model call and no cancellation is pending.
ModelTurn == phase \in {"Decomposing", "Synthesizing"} /\ deadline # "expired"

\* Variant: the list is not cut to MAX_SUB_QUERIES.
ValidateNoTruncate(qs) ==
    IF Len(qs) < 1 THEN [ok |-> FALSE, queries |-> qs] ELSE [ok |-> TRUE, queries |-> qs]

\* Variant: an empty list is accepted.
ValidateAcceptEmpty(qs) ==
    IF Len(qs) > MAX_SUB_QUERIES
    THEN [ok |-> TRUE, queries |-> SubSeq(qs, 1, MAX_SUB_QUERIES)]
    ELSE [ok |-> TRUE, queries |-> qs]

\* Validation of the query count (lines 219-222).
Validate(qs) ==
    IF Len(qs) < 1 THEN [ok |-> FALSE, queries |-> qs]
    ELSE IF Len(qs) > MAX_SUB_QUERIES
         THEN [ok |-> TRUE, queries |-> SubSeq(qs, 1, MAX_SUB_QUERIES)]
         ELSE [ok |-> TRUE, queries |-> qs]

\* executor.submit(retrieve_one, q) for q in queries (lines 240-241).
Submit(qs) == [i \in 1..Len(qs) |-> [query |-> qs[i], state |-> "running", pc |-> 0, held |-> 0]]

\* The model calls retrieve_for_queries(qs); an empty list is rejected
\* (line 220), otherwise the sub-queries are captured and submitted.
ToolCall(qs, cap) ==
    /\ ModelTurn
    /\ tool_calls < cap
    /\ tool_calls' = tool_calls + 1
    /\ LET v == Validate(qs) IN
       IF ~v.ok
       THEN /\ tool_output' = "error"
            /\ supplied' = qs
            /\ UNCHANGED <<phase, request, queries, futures, results, closure, response, outside>>
       ELSE /\ phase' = "Retrieving"
            /\ supplied' = qs
            /\ queries' = v.queries
            /\ captured_sub_queries' = v.queries
            /\ futures' = Submit(v.queries)
            /\ results' = <<>>
            /\ UNCHANGED <<request, all_results_by_query, final_deduplicated_chunks,
                           dedup_stats, tool_output, response, outside>>


\* `with get_db_connection() as conn` (connection.py lines 33-41): a
\* connection is taken from the pool on entry of a *_conn step and given
\* back on every exit of it.
Acquired(step) == IF step \in ConnSteps THEN 1 ELSE 0
HeldOnEnter(h, step) == h + Acquired(step)
\* Variant: the connection is not given back on exit.
HeldOnExitKeep(h) == h

HeldOnExit(h) == 0

\* A worker moves on to its next step (pc = 0: the thread has started).
Advance(f, steps) ==
    [f EXCEPT !.pc = f.pc + 1,
              !.held = HeldOnEnter(IF f.pc = 0 THEN f.held ELSE HeldOnExit(f.held),
                                   steps[f.pc + 1])]

\* HybridRetriever.retrieve returns early when the lexical stage is empty
\* (hybrid.py lines 61-79).
HybridEarlyReturn(f) ==
    /\ mode = "hybrid"
    /\ f.pc = 1
    /\ retrieve_chunks(store, f.query, max_returned) = <<>>

\* RetrievalResult has no `speaker` field (retrieval/models.py lines 15-24),
\* so the rerank loop raises AttributeError on its first candidate with an
\* embedding (hybrid.py lines 169-177); every chunk of these stores has one.
RerankRaises(f) == mode = "hybrid" /\ f.pc = Len(Steps("hybrid"))

WorkerStep(i) ==
    /\ phase = "Retrieving"
    /\ i \in 1..Len(futures)
    /\ futures[i].state = "running"
    /\ futures[i].pc < Len(Steps(mode))
    /\ ~HybridEarlyReturn(futures[i])
    /\ Acquired(Steps(mode)[futures[i].pc + 1]) = 1
          => ConnectionsHeld(futures) - futures[i].held < POOL_MAX_SIZE
    /\ futures' = [futures EXCEPT ![i] = Advance(futures[i], Steps(mode))]
    /\ UNCHANGED <<phase, request, tool_calls, supplied, queries, results,
                   closure, tool_output, response, outside>>

\* as_completed hands over a finished future (lines 242-250): its result is
\* stored under the query it returned, an exception stores an empty list
\* under the submitted query.
OnFutureResult(res, q, chunks) == [raised |-> FALSE, results |-> DictSet(res, q, chunks)]
OnFutureException(res, q) == [raised |-> FALSE, results |-> DictSet(res, q, <<>>)]

\* retrieve_one returns (lines 236-238) and its future is collected.
WorkerFinish(i) ==
    /\ phase = "Retrieving"
    /\ i \in 1..Len(futures)
    /\ futures[i].state = "running"
    /\ futures[i].pc = Len(Steps(mode)) \/ HybridEarlyReturn(futures[i])
    /\ ~RerankRaises(futures[i])
    /\ futures' = [futures EXCEPT ![i].state = "ok", ![i].held = HeldOnExit(@)]
    /\ LET r == OnFutureResult(results, futures[i].query,
                               retrieve_chunks(store, futures[i].query, max_returned))
       IN  /\ results' = r.results
           /\ phase' = IF r.raised THEN "Failed" ELSE phase
    /\ UNCHANGED <<request, tool_calls, supplied, queries, closure, tool_output, response, outside>>

\* retrieve_one raises at any point (store, pool or embedder error) and its
\* future is collected.
WorkerFail(i) ==
    /\ phase = "Retrieving"
    /\ i \in 1..Len(futures)
    /\ futures[i].state = "running"
    /\ futures' = [futures EXCEPT ![i].state = "failed", ![i].held = HeldOnExit(@)]
    /\ LET r == OnFutureException(results, futures[i].query)
       IN  /\ results' = r.results
           /\ phase' = IF r.raised THEN "Failed" ELSE phase
    /\ UNCHANGED <<request, tool_calls, supplied, queries, closure, tool_output, response, outside>>

\* Leaving `with ThreadPoolExecutor(...)` (lines 240-252): shutdown(wait=True)
\* returns once every worker has terminated.
\* Variant: shutdown does not wait for the workers still running.
ExecutorExitNoWait(fs) == \E i \in 1..Len(fs) : Final(fs[i])

ExecutorExit(fs) == \A i \in 1..Len(fs) : Final(fs[i])

\* Variant: the tool goes on to merge without leaving the executor.
JoinNoBarrier ==
    /\ phase = "Retrieving"
    /\ futures # <<>>
    /\ phase' = "Merging"
    /\ UNCHANGED <<request, tool_calls, call, closure, tool_output, response, outside>>

Join ==
    /\ phase = "Retrieving"
    /\ ExecutorExit(futures)
    /\ phase' = "Merging"
    /\ UNCHANGED <<request, tool_calls, call, closure, tool_output, response, outside>>

\* Lines 255-294: closure state replaced by this call's results, the merged
\* list and its statistics; the rendered context goes back to the model and
\* the tool's locals are gone.
\* Variant: all_results_by_query is not replaced by the results of this call.
MergeKeepResultsByQuery ==
    /\ phase = "Merging"
    /\ LET d == DeduplicateChunks(results, max_returned) IN
       /\ all_results_by_query' = all_results_by_query
       /\ final_deduplicated_chunks' = d.chunks
       /\ dedup_stats' = d.stats
       /\ tool_output' = IF d.chunks = <<>> THEN "no_info" ELSE "context"
    /\ phase' = "Synthesizing"
    /\ queries' = <<>>
    /\ futures' = <<>>
    /\ results' = <<>>
    /\ UNCHANGED <<request, tool_calls, supplied, captured_sub_queries, response, outside>>

Merge ==
    /\ phase = "Merging"
    /\ LET d == DeduplicateChunks(results, max_returned) IN
       /\ all_results_by_query' = results
       /\ final_deduplicated_chunks' = d.chunks
       /\ dedup_stats' = d.stats
       /\ tool_output' = IF d.chunks = <<>> THEN "no_info" ELSE "context"
    /\ phase' = "Synthesizing"
    /\ queries' = <<>>
    /\ futures' = <<>>
    /\ results' = <<>>
    /\ UNCHANGED <<request, tool_calls, supplied, captured_sub_queries, response, outside>>

\* chunks_per_subquery (lines 357-359).
ChunksPerSubquery(d) == [i \in 1..Len(d) |-> [query |-> d[i].query, count |-> Len(d[i].chunks)]]

\* The model produces its final output; generate builds the AgentResponse
\* from the closure state (lines 336-371).
FinalAnswer ==
    /\ ModelTurn
    /\ phase' = "Done"
    /\ response' = [built |-> TRUE,
                    sub_queries |-> captured_sub_queries,
                    chunks_per_subquery |-> ChunksPerSubquery(all_results_by_query),
                    deduplication_stats |-> dedup_stats,
                    retrieved_chunks |-> final_deduplicated_chunks]
    /\ UNCHANGED <<request, tool_calls, call, closure, tool_output, outside>>

\* Runner.run raises (model provider error): generate propagates it.
ModelError ==
    /\ ModelTurn
    /\ phase' = "Failed"
    /\ UNCHANGED <<request, tool_calls, call, closure, tool_output, response, outside>>

\* The caller's asyncio.wait_for(agent.generate(...), timeout) expires
\* (runner.py lines 190-194) while the request is under way.  Nothing in
\* generate or retrieve_all_sync reads a deadline.
DeadlineExpires ==
    /\ deadline = "armed"
    /\ phase \in {"Decomposing", "Retrieving", "Merging", "Synthesizing"}
    /\ deadline' = "expired"
    /\ UNCHANGED <<phase, request, tool_calls, call, closure, tool_output, response,
                   retrieval, evaluation, ingestion, tracing, others>>

\* The cancellation reaches generate where it is suspended, on a model call
\* (line 330): the tool is a plain function run to its end inside Runner.run.
\* wait_for raises TimeoutError and no AgentResponse is built.
Cancel ==
    /\ deadline = "expired"
    /\ phase \in {"Decomposing", "Synthesizing"}
    /\ phase' = "Timeout"
    /\ UNCHANGED <<request, tool_calls, call, closure, tool_output, response, outside>>

\* ------------------------------------------------------------ one retrieval
\* A chunk row as the retrievers see it: rank is ts_rank against the query
\* (0: c.tsv does not match), embedded says whether chunk_embeddings has a
\* row for it, similarity is 1 - cosine distance to the query embedding (0
\* stands for no embedding), published_at is its document's date.
Dates == 1..3
ChunkRows == {r \in [rank : {0, 50, 60}, embedded : BOOLEAN,
                     similarity : {0, 50, 60}, published_at : Dates] :
                 r.embedded <=> r.similarity > 0}
Corpora == [ChunkIds -> ChunkRows]

\* Text is a sequence of characters over a small alphabet with both cases.
Chars == {"a", "A", "b", "B"}
Lower(c) == CASE c = "A" -> "a" [] c = "B" -> "b" [] OTHER -> c
LowerStr(t) == [i \in 1..Len(t) |-> Lower(t[i])]
\* Python's `a in b` on strings.
IsSubstring(a, b) ==
    \E i \in 0..(Len(b) - Len(a)) : SubSeq(b, i + 1, i + Len(a)) = a

\* Speakers of turns, and the values a speaker filter takes (<<>>: no
\* speaker key in the filters).
SpeakerNames == {<<"A", "b">>, <<"B", "a">>}
SpeakerFilterValues == {<<>>, <<"a">>, <<"a", "B">>, <<"b", "b">>}
DefaultSpeakers == [c \in ChunkIds |-> <<"A", "b">>]

\* filters: 0 stands for an absent (falsy) start_date or end_date.
FilterChoices == [start_date : {0, 2}, end_date : {0, 2}, speaker : {<<>>}]
SpeakerFilterChoices == [start_date : {0}, end_date : {0}, speaker : SpeakerFilterValues]
RetrievalParams == [mode : Modes, n : 1..MaxN, fts_candidates : 1..MaxN,
                    filters : FilterChoices]

\* The WHERE clauses appended for the date range (fts.py lines 156-164,
\* vector.py lines 137-145): published_at >= start_date, published_at <= end_date.
PassesFilters(row, f) ==
    /\ f.start_date # 0 => row.published_at >= f.start_date
    /\ f.end_date # 0 => row.published_at <= f.end_date

\* Variant: ORDER BY c.id ASC alone.
FtsRetrieveByIdOnly(cp, n, f) ==
    LET by_id == RankBy({c \in ChunkIds : cp[c].rank > 0 /\ PassesFilters(cp[c], f)},
                        [c \in ChunkIds |-> 0])
    IN  Take([i \in 1..Len(by_id) |->
                 [chunk_id |-> by_id[i].chunk_id, score |-> cp[by_id[i].chunk_id].rank]], n)

\* FullTextSearchRetriever.retrieve: WHERE c.tsv @@ query AND filters
\* ORDER BY score DESC, c.id ASC LIMIT n.
FtsRetrieve(cp, n, f) ==
    Take(RankBy({c \in ChunkIds : cp[c].rank > 0 /\ PassesFilters(cp[c], f)},
                [c \in ChunkIds |-> cp[c].rank]), n)

\* VectorSimilarityRetriever.retrieve: chunk_embeddings JOIN chunks WHERE
\* filters ORDER BY similarity DESC, c.id ASC LIMIT n.
VectorRetrieve(cp, n, f) ==
    Take(RankBy({c \in ChunkIds : cp[c].embedded /\ PassesFilters(cp[c], f)},
                [c \in ChunkIds |-> cp[c].similarity]), n)

\* The fields of the RetrievalResult dataclass.
RetrievalResultFields == {"chunk_id", "doc_id", "text", "score", "metadata", "ord"}

\* HybridRetriever._rerank_by_similarity_db: the candidates found in
\* chunk_embeddings are rebuilt with their similarity as score, reading
\* chunk.speaker and passing speaker= to RetrievalResult (lines 169-177),
\* then sorted on the score alone (line 181).
RerankBySimilarityDb(cp, chunks) ==
    LET found == SelectSeq(chunks, LAMBDA ch : cp[ch.chunk_id].embedded)
    IN  IF found # <<>> /\ "speaker" \notin RetrievalResultFields
        THEN [raised |-> TRUE, chunks |-> <<>>]
        ELSE [raised |-> FALSE,
              chunks |-> SortByScoreDesc(
                  [i \in 1..Len(found) |->
                      [chunk_id |-> found[i].chunk_id,
                       score |-> cp[found[i].chunk_id].similarity]])]

\* HybridRetriever.retrieve: lexical candidates, early return when there are
\* none, rerank, first n.
HybridRetrieve(cp, n, fts_candidates, f) ==
    LET fts_results == FtsRetrieve(cp, fts_candidates, f)
    IN  IF fts_results = <<>> THEN [raised |-> FALSE, chunks |-> <<>>]
        ELSE LET reranked == RerankBySimilarityDb(cp, fts_results)
             IN  [raised |-> reranked.raised, chunks |-> Take(reranked.chunks, n)]

\* The dispatch on the mode (helpers.py lines 51-74).
RetrieverResult(cp, rp) ==
    CASE rp.mode = "fts"    -> [raised |-> FALSE, chunks |-> FtsRetrieve(cp, rp.n, rp.filters)]
      [] rp.mode = "vector" -> [raised |-> FALSE, chunks |-> VectorRetrieve(cp, rp.n, rp.filters)]
      [] rp.mode = "hybrid" -> HybridRetrieve(cp, rp.n, rp.fts_candidates, rp.filters)

NoRetrieval == [status |-> "none", chunks |-> <<>>]

\* retrieve_chunks(query, retrieval_params) is called once.
RetrieveChunks ==
    /\ retrieval_response.status = "none"
    /\ LET r == RetrieverResult(corpus, retrieval_params)
       IN  retrieval_response' =
             [status |-> IF r.raised THEN "raised" ELSE "ok", chunks |-> r.chunks]
    /\ UNCHANGED <<agent, others, corpus, chunk_speaker, retrieval_params, evaluation, ingestion,
                   tracing>>

\* ---------------------------------------------------------- evaluation run
\* Metric values are fixed-point integers (thousandths); an optional value
\* is <<>> (None) or <<v>>.
GroundTruths == {<<>>, <<1>>, <<1, 2>>}                     \* task.source_chunk_ids
RetrievedLists == {<<>>, <<1>>, <<2>>, <<1, 2>>, <<2, 1>>}  \* chunk ids of a response, in rank order
Datasets == UNION {[1..n -> GroundTruths] : n \in 1..MaxExamples}
KValueChoices == {<<1>>, <<1, 2>>}                          \* --k
TimeoutChoices == {<<>>, <<0>>, <<5>>}                      \* --timeout: None, 0, 5 seconds

\* sum(1 for item in top_k if item in ground_truth_set)
RelevantRetrieved(top_k, ground_truth) ==
    Cardinality({i \in 1..Len(top_k) : top_k[i] \in Range(ground_truth)})

recall_at_k(retrieved, ground_truth, k) ==
    IF ground_truth = <<>> THEN 0
    ELSE IF retrieved = <<>> THEN 0
    ELSE (RelevantRetrieved(Take(retrieved, k), ground_truth) * 1000) \div Len(ground_truth)

precision_at_k(retrieved, ground_truth, k) ==
    IF retrieved = <<>> THEN 0
    ELSE IF ground_truth = <<>> THEN 0
    ELSE (RelevantRetrieved(Take(retrieved, k), ground_truth) * 1000)
            \div Len(Take(retrieved, k))

hit_rate(retrieved, ground_truth, k) ==
    IF retrieved = <<>> \/ ground_truth = <<>> THEN 0
    ELSE IF RelevantRetrieved(Take(retrieved, k), ground_truth) > 0 THEN 1000 ELSE 0

\* Variant: 0 instead of None when nothing relevant was retrieved.
mrrZeroWhenNoMatch(retrieved, ground_truth) ==
    IF retrieved = <<>> \/ ground_truth = <<>> THEN <<0>>
    ELSE LET hits == {i \in 1..Len(retrieved) : retrieved[i] \in Range(ground_truth)}
         IN  IF hits = {} THEN <<0>>
             ELSE <<1000 \div (CHOOSE i \in hits : \A j \in hits : i <= j)>>

\* 1 / rank of the first relevant item, None when there is none.
mrr(retrieved, ground_truth) ==
    IF retrieved = <<>> \/ ground_truth = <<>> THEN <<>>
    ELSE LET hits == {i \in 1..Len(retrieved) : retrieved[i] \in Range(ground_truth)}
         IN  IF hits = {} THEN <<>>
             ELSE <<1000 \div (CHOOSE i \in hits : \A j \in hits : i <= j)>>

\* 1 / log2(rank + 1), in thousandths.
Discount(rank) ==
    CASE rank = 1 -> 1000 [] rank = 2 -> 631 [] rank = 3 -> 500 [] rank = 4 -> 431
      [] rank = 5 -> 387 [] OTHER -> 356

RECURSIVE SumDiscount(_)
SumDiscount(ranks) ==
    IF ranks = {} THEN 0
    ELSE LET r == CHOOSE x \in ranks : TRUE IN Discount(r) + SumDiscount(ranks \ {r})

ndcg_at_k(retrieved, ground_truth, k) ==
    IF retrieved = <<>> \/ ground_truth = <<>> THEN 0
    ELSE LET top_k == Take(retrieved, k)
             dcg  == SumDiscount({i \in 1..Len(top_k) : top_k[i] \in Range(ground_truth)})
             idcg == SumDiscount(1..Min(Len(ground_truth), k))
         IN  IF dcg = 0 THEN 0 ELSE IF idcg = 0 THEN 0 ELSE (dcg * 1000) \div idcg

\* compute_retrieval_metrics raises ValueError for k < 1.
compute_retrieval_metrics(retrieved, ground_truth, k) ==
    IF k < 1 THEN [raised |-> TRUE] ELSE
    [raised |-> FALSE,
     recall_at_k |-> recall_at_k(retrieved, ground_truth, k),
     precision_at_k |-> precision_at_k(retrieved, ground_truth, k),
     hit_rate |-> hit_rate(retrieved, ground_truth, k),
     mrr |-> mrr(retrieved, ground_truth),
     ndcg_at_k |-> ndcg_at_k(retrieved, ground_truth, k),
     k |-> k,
     num_retrieved |-> Len(retrieved),
     num_ground_truth |-> Len(ground_truth),
     num_relevant_retrieved |-> Cardinality(Range(ground_truth) \cap Range(Take(retrieved, k)))]

\* One call of compute_retrieval_metrics on lists that may repeat an
\* identifier.
MetricChunkIds == 1..3
MetricLists == UNION {[1..n -> MetricChunkIds] : n \in 0..MaxListLen}
MetricCalls == [retrieved : MetricLists, ground_truth : MetricLists, k : 0..MaxK]
NoMetrics == [status |-> "none"]

ComputeRetrievalMetrics ==
    /\ metric_result.status = "none"
    /\ LET m == compute_retrieval_metrics(metric_call.retrieved, metric_call.ground_truth,
                                          metric_call.k)
       IN  metric_result' = IF m.raised THEN [status |-> "raised"]
                            ELSE [status |-> "ok", metrics |-> m]
    /\ UNCHANGED <<agent, retrieval, evaluation, ingestion, tracing, metric_call, scoring, expander,
                   http, vanilla, chunker, pooling>>

\* ------------------------------------------------- filter-extraction scoring
\* A filter value is None (<<>>) or a text (<<t>>); texts are over letters of
\* both cases and the blank.
FilterChars == {"a", "A", "b", " "}
FilterTexts == UNION {[1..n -> FilterChars] : n \in 0..MaxTextLen}
FilterValues == {<<>>} \cup {<<t>> : t \in FilterTexts}
DateTexts == {<<"2", "0", "2", "4", "0", "1">>, <<"2", "0", "2", "4", "1", "2">>,
              <<"2", "0", "2", "3", "0", "1">>, <<"2", "0", "2">>, <<>>}
DateValues == {<<>>} \cup {<<t>> : t \in DateTexts}
FilterFields == {"speaker", "start_date", "end_date", "source", "doc_type"}
NoFilters == [f \in FilterFields |-> <<>>]

\* str.strip() and _normalize_filter_value: None stays None, a text is
\* stripped and lowered.
RECURSIVE StripLeft(_)
StripLeft(t) == IF t # <<>> /\ Head(t) = " " THEN StripLeft(Tail(t)) ELSE t
RECURSIVE StripRight(_)
StripRight(t) ==
    IF t # <<>> /\ t[Len(t)] = " " THEN StripRight(SubSeq(t, 1, Len(t) - 1)) ELSE t
Strip(t) == StripRight(StripLeft(t))
normalize_filter_value(value) ==
    IF value = <<>> THEN <<>> ELSE <<LowerStr(Strip(value[1]))>>

\* The source and doc_type branches: `expected in actual` (lines 113-131).
SubstringMatch(e, a) ==
    IF e = <<>> /\ a = <<>> THEN TRUE
    ELSE IF e = <<>> \/ a = <<>> THEN e = a
    ELSE IsSubstring(e[1], a[1])

\* The speaker branch (lines 77-91).
SpeakerMatch(e, a) ==
    IF e = <<>> /\ a = <<>> THEN TRUE
    ELSE IF e = <<>> /\ a # <<>> THEN FALSE
    ELSE IF e # <<>> /\ a = <<>> THEN FALSE
    ELSE IsSubstring(e[1], a[1]) \/ IsSubstring(a[1], e[1])

\* The date branch (lines 94-111): equal four-character prefixes; an empty
\* text is falsy and gives the year None.
YearOf(d) == IF d = <<>> THEN <<>> ELSE <<Take(d, 4)>>
DateMatch(e, a) ==
    IF e = <<>> /\ a = <<>> THEN TRUE
    ELSE IF e = <<>> /\ a # <<>> THEN FALSE
    ELSE IF e # <<>> /\ a = <<>> THEN FALSE
    ELSE YearOf(e[1]) = YearOf(a[1])

compare_filters(expected, actual) ==
    LET matches ==
          [f \in FilterFields |->
              CASE f = "speaker" ->
                     SpeakerMatch(normalize_filter_value(expected.speaker),
                                  normalize_filter_value(actual.speaker))
                [] f \in {"start_date", "end_date"} -> DateMatch(expected[f], actual[f])
                [] OTHER ->
                     SubstringMatch(normalize_filter_value(expected[f]),
                                    normalize_filter_value(actual[f]))]
    IN  [status |-> "done", matches |-> matches,
         overall |-> \A f \in FilterFields : matches[f]]

\* The cases compared: one field carries values, the others are absent on
\* both sides.
FilterCases ==
    {[expected |-> [NoFilters EXCEPT ![f] = e], actual |-> [NoFilters EXCEPT ![f] = a]] :
        f \in {"speaker", "source", "doc_type"}, e \in FilterValues, a \in FilterValues}
      \cup
    {[expected |-> [NoFilters EXCEPT ![f] = e], actual |-> [NoFilters EXCEPT ![f] = a]] :
        f \in {"start_date", "end_date"}, e \in DateValues, a \in DateValues}
NoMatches == [status |-> "none"]

CompareFilters ==
    /\ filter_matches.status = "none"
    /\ filter_matches' = compare_filters(filter_case.expected, filter_case.actual)
    /\ UNCHANGED <<agent, retrieval, evaluation, ingestion, tracing, metrics, filter_case,
                   expander, http, vanilla, chunker, pooling>>

\* ------------------------------------------------------------ turn expander
\* expand(chunk_ids, token_budget, include_preceding_question): the turns of
\* one document are 1..MaxTurns by ordinal; a chunk names its turn and its
\* score.
TurnIds == 1..MaxTurns
ExpandChunkSlots == 1..3
TokenCounts == {60, 100}
TokenBudgets == {100, 150, 250}
ExpandCalls == [chunks : [ExpandChunkSlots -> [turn : TurnIds, score : {70, 90}]],
                token_budget : TokenBudgets, include_preceding_question : BOOLEAN]
NoExpand == [pc |-> "idle", pending |-> <<>>, turns |-> <<>>, total_tokens |-> 0]

MaxScoreOf(S) == CHOOSE v \in S : \A w \in S : v >= w

\* Deduplication: each referenced turn once, with the maximum score among
\* its source chunks.
TurnViews(chunks) ==
    {[turn |-> t,
      score |-> MaxScoreOf({chunks[c].score : c \in {d \in DOMAIN chunks : chunks[d].turn = t}})] :
        t \in {chunks[c].turn : c \in DOMAIN chunks}}

\* Token cost of a turn: its own tokens plus, if requested, those of the
\* turn of ordinal - 1.
TurnCost(t, tokens, include_preceding) ==
    tokens[t] + (IF include_preceding /\ t > 1 THEN tokens[t - 1] ELSE 0)

\* The orders of the views that are descending in score.
DescendingOrders(views) ==
    {o \in [1..Cardinality(views) -> views] :
        /\ \A i, j \in DOMAIN o : i # j => o[i] # o[j]
        /\ \A i, j \in DOMAIN o : i < j => o[i].score >= o[j].score}

\* Variant: a turn that does not fit is skipped and the next is considered.
ConsiderSkipAndContinue(st, tokens, xc) ==
    LET view == Head(st.pending)
        cost == TurnCost(view.turn, tokens, xc.include_preceding_question)
    IN  IF st.total_tokens + cost <= xc.token_budget
        THEN [pc |-> IF Tail(st.pending) = <<>> THEN "done" ELSE "assembling",
              pending |-> Tail(st.pending), turns |-> Append(st.turns, view),
              total_tokens |-> st.total_tokens + cost]
        ELSE [pc |-> IF Tail(st.pending) = <<>> THEN "done" ELSE "assembling",
              pending |-> Tail(st.pending), turns |-> st.turns,
              total_tokens |-> st.total_tokens]

\* One iteration of the assembly: the next turn is included iff the total
\* stays within the budget; the first turn that does not fit ends the loop.
Consider(st, tokens, xc) ==
    LET view == Head(st.pending)
        cost == TurnCost(view.turn, tokens, xc.include_preceding_question)
    IN  IF st.total_tokens + cost <= xc.token_budget
        THEN [pc |-> IF Tail(st.pending) = <<>> THEN "done" ELSE "assembling",
              pending |-> Tail(st.pending), turns |-> Append(st.turns, view),
              total_tokens |-> st.total_tokens + cost]
        ELSE [pc |-> "done", pending |-> st.pending, turns |-> st.turns,
              total_tokens |-> st.total_tokens]

ExpandStart ==
    /\ expand_state.pc = "idle"
    /\ \E o \in DescendingOrders(TurnViews(expand_call.chunks)) :
          expand_state' = [pc |-> "assembling", pending |-> o, turns |-> <<>>,
                           total_tokens |-> 0]
    /\ UNCHANGED <<agent, retrieval, evaluation, ingestion, tracing, metrics, scoring,
                   turn_tokens, expand_call, http, vanilla, chunker, pooling>>

ExpandStep ==
    /\ expand_state.pc = "assembling"
    /\ expand_state' = Consider(expand_state, turn_tokens, expand_call)
    /\ UNCHANGED <<agent, retrieval, evaluation, ingestion, tracing, metrics, scoring,
                   turn_tokens, expand_call, http, vanilla, chunker, pooling>>

\* ------------------------------------------------------- HTTP error handling
\* Two requests to the same endpoint whose try bodies end the same way, with
\* exception texts of their own.
Routes == {"chat_completion", "query_chunks", "benchmark_retrieval", "expand_chunks",
           "generate_qa_pairs", "ingest_youtube", "ingest_text"}
ExceptionKinds == {"none", "NotImplementedError", "ValueError", "Exception"}
ExceptionTexts == {"text1", "text2"}
NoHttpResponse == [status |-> 0, detail |-> <<>>]

\* The except clauses of an endpoint: the status and the detail of the
\* HTTPException raised for an exception of the given kind and text.
ErrorResponse(route, kind, text) ==
    CASE route = "chat_completion" ->
           (CASE kind = "NotImplementedError" -> [status |-> 400, detail |-> <<text>>]
              [] kind = "ValueError" -> [status |-> 400, detail |-> <<"Invalid request: ", text>>]
              [] OTHER -> [status |-> 500, detail |-> <<"Chat completion failed: ", text>>])
      [] route = "query_chunks" -> [status |-> 500, detail |-> <<"Query failed: ", text>>]
      [] route = "benchmark_retrieval" ->
           [status |-> 500, detail |-> <<"Benchmark failed: ", text>>]
      [] route = "expand_chunks" ->
           [status |-> 500,
            detail |-> <<"Expansion failed. Please verify the chunk IDs exist.">>]
      [] route = "generate_qa_pairs" ->
           [status |-> 500,
            detail |-> <<"Q&A pair generation failed. Please verify the turn IDs exist.">>]
      [] OTHER ->
           (CASE kind = "ValueError" -> [status |-> 400, detail |-> <<text>>]
              [] OTHER -> [status |-> 500, detail |-> <<"Ingestion failed: ", text>>])

\* The endpoint answers request r.
Respond(r) ==
    /\ http_responses[r] = NoHttpResponse
    /\ http_responses' =
          [http_responses EXCEPT ![r] =
              IF http_runs[r].kind = "none" THEN [status |-> 200, detail |-> <<>>]
              ELSE ErrorResponse(http_route, http_runs[r].kind, http_runs[r].text)]
    /\ UNCHANGED <<agent, retrieval, evaluation, ingestion, tracing, metrics, scoring,
                   expander, http_route, http_runs, vanilla, chunker, pooling>>

\* ------------------------------------------------------------ vanilla agent
\* VanillaRAGAgent.generate: the model is given the tool retrieve_context and
\* decides whether, how often and with which query it calls it.
VANILLA_DEFAULT_MAX_RETURNED == 10
NoVanillaResponse == [built |-> FALSE, retrieved_chunks |-> <<>>]

\* generate(), lines 167-171: the empty local list.
VanillaStart ==
    /\ vanilla_phase = "Idle"
    /\ vanilla_phase' = "Running"
    /\ retrieved_chunks' = <<>>
    /\ vanilla_tool_queries' = <<>>
    /\ UNCHANGED <<agent, retrieval, evaluation, ingestion, tracing, metrics, scoring,
                   expander, http, chunker, pooling, vanilla_store, question, vanilla_response>>

\* retrieve_context(query), lines 177-207: one retrieval for the query the
\* model passed, its chunks appended to the list (retrieved_chunks.extend).
RetrieveContext(query) ==
    /\ vanilla_phase = "Running"
    /\ Len(vanilla_tool_queries) < MaxVanillaCalls
    /\ vanilla_tool_queries' = Append(vanilla_tool_queries, query)
    /\ retrieved_chunks' =
          retrieved_chunks \o retrieve_chunks(vanilla_store, query, VANILLA_DEFAULT_MAX_RETURNED)
    /\ UNCHANGED <<agent, retrieval, evaluation, ingestion, tracing, metrics, scoring,
                   expander, http, chunker, pooling, vanilla_phase, vanilla_store, question, vanilla_response>>

\* Runner.run returns and the AgentResponse is built (lines 236-263).
VanillaFinalAnswer ==
    /\ vanilla_phase = "Running"
    /\ vanilla_phase' = "Done"
    /\ vanilla_response' = [built |-> TRUE, retrieved_chunks |-> retrieved_chunks]
    /\ UNCHANGED <<agent, retrieval, evaluation, ingestion, tracing, metrics, scoring,
                   expander, http, chunker, pooling, vanilla_store, question, vanilla_tool_queries,
                   retrieved_chunks>>

\* Runner.run raises: generate propagates it, no response is built.
VanillaModelError ==
    /\ vanilla_phase = "Running"
    /\ vanilla_phase' = "Failed"
    /\ UNCHANGED <<agent, retrieval, evaluation, ingestion, tracing, metrics, scoring,
                   expander, http, chunker, pooling, vanilla_store, question, vanilla_tool_queries,
                   retrieved_chunks, vanilla_response>>

\* ------------------------------------------------------------------ chunker
\* TokenBasedChunker.chunk over a text of num_tokens tokens.  A chunk is kept
\* as its token count and ordinal.
ChunkerConfigs == [min_tokens : 0..2, max_tokens : 1..3, overlap_tokens : 0..3]
NoChunking == [pc |-> "idle", start_idx |-> 0, chunk_ord |-> 0, chunks |-> <<>>,
               iterations |-> 0]

\* len(tokens[start:end]) with Python's slice rules: a negative index counts
\* from the end, and both are clamped to 0..n.
SliceIndex(i, n) == IF i < 0 THEN Max(n + i, 0) ELSE Min(i, n)
SliceLen(start, end, n) == Max(SliceIndex(end, n) - SliceIndex(start, n), 0)

\* Lines 50-57: the empty text returns [], otherwise the loop is entered.
ChunkStart ==
    /\ chunker_state.pc = "idle"
    /\ chunker_state' = [NoChunking EXCEPT !.pc = IF num_tokens = 0 THEN "done" ELSE "loop"]
    /\ UNCHANGED <<agent, retrieval, evaluation, ingestion, tracing, metrics, scoring,
                   expander, http, vanilla, pooling, chunker_config, num_tokens>>

\* One iteration of `while start_idx < len(tokens)` (lines 59-84).
ChunkIteration ==
    /\ chunker_state.pc = "loop"
    /\ chunker_state.iterations < MaxIterations
    /\ LET start_idx == chunker_state.start_idx
           end_idx   == Min(start_idx + chunker_config.max_tokens, num_tokens)
           count     == SliceLen(start_idx, end_idx, num_tokens)
           keep      == count >= chunker_config.min_tokens \/ end_idx = num_tokens
           chunks    == IF keep
                        THEN Append(chunker_state.chunks,
                                    [token_count |-> count, ord |-> chunker_state.chunk_ord])
                        ELSE chunker_state.chunks
           chunk_ord == IF keep THEN chunker_state.chunk_ord + 1 ELSE chunker_state.chunk_ord
           next      == end_idx - chunker_config.overlap_tokens
       IN  chunker_state' =
             IF end_idx = num_tokens
             THEN [pc |-> "done", start_idx |-> start_idx, chunk_ord |-> chunk_ord,
                   chunks |-> chunks, iterations |-> chunker_state.iterations + 1]
             ELSE [pc |-> IF next < num_tokens THEN "loop" ELSE "done",
                   start_idx |-> next, chunk_ord |-> chunk_ord, chunks |-> chunks,
                   iterations |-> chunker_state.iterations + 1]
    /\ UNCHANGED <<agent, retrieval, evaluation, ingestion, tracing, metrics, scoring,
                   expander, http, vanilla, pooling, chunker_config, num_tokens>>

\* ---------------------------------------------------------- connection pool
PoolPrograms == {"calls", "lifespan", "eval_runner"}
Outcomes == {"ok", "raise"}
PoolFrame == <<agent, retrieval, evaluation, ingestion, tracing, metrics, scoring,
               expander, http, vanilla, chunker, pool_program>>

\* init_db_pool: a new open ConnectionPool is assigned to _pool; the previous
\* value of _pool is not looked at.
init_db_pool ==
    /\ pools_created' = pools_created + 1
    /\ open_pools' = open_pools \cup {pools_created + 1}
    /\ pool' = pools_created + 1

\* close_db_pool: closes the pool _pool refers to, if any, and clears _pool.
close_db_pool ==
    IF pool # 0
    THEN /\ open_pools' = open_pools \ {pool}
         /\ pool' = 0
         /\ UNCHANGED pools_created
    ELSE UNCHANGED <<pool, open_pools, pools_created>>

\* A caller's free sequence of init_db_pool / close_db_pool calls.
CallInit ==
    /\ pool_program = "calls" /\ pool_pc = "start"
    /\ pool_calls < MaxPoolCalls
    /\ init_db_pool
    /\ pool_calls' = pool_calls + 1
    /\ UNCHANGED <<PoolFrame, pool_pc>>

CallClose ==
    /\ pool_program = "calls" /\ pool_pc = "start"
    /\ pool_calls < MaxPoolCalls
    /\ close_db_pool
    /\ pool_calls' = pool_calls + 1
    /\ UNCHANGED <<PoolFrame, pool_pc>>

CallsEnd ==
    /\ pool_program = "calls" /\ pool_pc = "start"
    /\ pool_pc' = "ended"
    /\ UNCHANGED <<PoolFrame, pool, open_pools, pools_created, pool_calls>>

\* lifespan: init_db_pool before the yield, close_db_pool after it.
LifespanStartup ==
    /\ pool_program = "lifespan" /\ pool_pc = "start"
    /\ init_db_pool
    /\ pool_pc' = "serving"
    /\ UNCHANGED <<PoolFrame, pool_calls>>

\* The yield returns normally ("ok") and line 21 closes the pool, or the
\* server throws into the generator at the yield ("raise"): the yield is in
\* no try/finally, so the generator is left without reaching line 21.
LifespanShutdown(outcome) ==
    /\ pool_program = "lifespan" /\ pool_pc = "serving"
    /\ IF outcome = "ok" THEN close_db_pool
                         ELSE UNCHANGED <<pool, open_pools, pools_created>>
    /\ pool_pc' = "ended"
    /\ UNCHANGED <<PoolFrame, pool_calls>>

\* Eval runner main: init_db_pool (line 442) ...
RunnerInit ==
    /\ pool_program = "eval_runner" /\ pool_pc = "start"
    /\ init_db_pool
    /\ pool_pc' = "verify"
    /\ UNCHANGED <<PoolFrame, pool_calls>>

\* ... initialize_tracing and the chunk count query (lines 443-454), which are
\* before the try statement: an exception there leaves main ...
RunnerVerify(outcome) ==
    /\ pool_program = "eval_runner" /\ pool_pc = "verify"
    /\ pool_pc' = IF outcome = "ok" THEN "try" ELSE "ended"
    /\ UNCHANGED <<PoolFrame, pool, open_pools, pools_created, pool_calls>>

\* ... and the try body (lines 456-575) with its finally (577-579), which
\* closes the pool whether the body returned or raised.
RunnerBody(outcome) ==
    /\ pool_program = "eval_runner" /\ pool_pc = "try"
    /\ close_db_pool
    /\ pool_pc' = "ended"
    /\ UNCHANGED <<PoolFrame, pool_calls>>

\* metrics_by_k, one entry per configured k in the order of k_values.
MetricsByK(retrieved, ground_truth, ks) ==
    [j \in 1..Len(ks) |-> compute_retrieval_metrics(retrieved, ground_truth, ks[j])]

AnyRaised(metrics_by_k) == \E j \in 1..Len(metrics_by_k) : metrics_by_k[j].raised

\* What `await agent.generate(...)` under the optional wait_for ends with.
AgentOutcomes(to) ==
    {[kind |-> "response", retrieved |-> r] : r \in RetrievedLists}
        \cup {[kind |-> "exception", retrieved |-> <<>>]}
        \cup (IF to # <<>> /\ to[1] # 0
              THEN {[kind |-> "timeout", retrieved |-> <<>>]} ELSE {})

\* The EvalResult of the try body (lines 198-231).
SuccessRecord(i, gt, retrieved, ks, to) ==
    [eval_id |-> i, retrieved_chunk_ids |-> retrieved,
     metrics_by_k |-> MetricsByK(retrieved, gt, ks),
     latency_ms |-> 1, success |-> TRUE, error |-> "none"]

\* Variant: the record of a timeout keeps success = TRUE.
TimeoutRecordAsSuccess(i, gt, ks, to) ==
    [eval_id |-> i, retrieved_chunk_ids |-> <<>>,
     metrics_by_k |-> MetricsByK(<<>>, gt, ks),
     latency_ms |-> IF to # <<>> /\ to[1] # 0 THEN to[1] * 1000 ELSE 0,
     success |-> TRUE, error |-> "none"]

\* The EvalResult of `except asyncio.TimeoutError` (lines 233-250).
TimeoutRecord(i, gt, ks, to) ==
    [eval_id |-> i, retrieved_chunk_ids |-> <<>>,
     metrics_by_k |-> MetricsByK(<<>>, gt, ks),
     latency_ms |-> IF to # <<>> /\ to[1] # 0 THEN to[1] * 1000 ELSE 0,
     success |-> FALSE, error |-> "timeout"]

\* The EvalResult of `except Exception` (lines 252-270), error = str(e).
ErrorRecord(i, gt, ks) ==
    [eval_id |-> i, retrieved_chunk_ids |-> <<>>,
     metrics_by_k |-> MetricsByK(<<>>, gt, ks),
     latency_ms |-> 0, success |-> FALSE, error |-> "exception"]

\* Variant: no `except Exception` handler, the agent's exception leaves
\* run_single_eval.
run_single_eval_no_handler(i, gt, outcome, ks, to) ==
    CASE outcome.kind = "timeout" ->
            [raised |-> FALSE, result |-> TimeoutRecord(i, gt, ks, to)]
      [] outcome.kind = "exception" ->
            [raised |-> TRUE, result |-> ErrorRecord(i, gt, ks)]
      [] outcome.kind = "response" ->
            [raised |-> FALSE, result |-> SuccessRecord(i, gt, outcome.retrieved, ks, to)]

\* run_single_eval (lines 166-270): a ValueError of the metrics in the try
\* body is handled by `except Exception`; one raised inside a handler leaves
\* the function.
run_single_eval(i, gt, outcome, ks, to) ==
    CASE outcome.kind = "timeout" ->
            LET rec == TimeoutRecord(i, gt, ks, to)
            IN  [raised |-> AnyRaised(rec.metrics_by_k), result |-> rec]
      [] outcome.kind = "exception" ->
            LET rec == ErrorRecord(i, gt, ks)
            IN  [raised |-> AnyRaised(rec.metrics_by_k), result |-> rec]
      [] outcome.kind = "response" ->
            LET rec == SuccessRecord(i, gt, outcome.retrieved, ks, to)
            IN  IF AnyRaised(rec.metrics_by_k)
                THEN [raised |-> AnyRaised(ErrorRecord(i, gt, ks).metrics_by_k),
                      result |-> ErrorRecord(i, gt, ks)]
                ELSE [raised |-> FALSE, result |-> rec]

NoOutcome == [kind |-> "none", retrieved |-> <<>>]

\* The agent call of the next task ends (lines 190-196).
AgentCallEnds ==
    /\ run_state.pc = "await_agent"
    /\ Len(eval_results) < Len(examples)
    /\ \E o \in AgentOutcomes(timeout) : run_state' = [pc |-> "build_result", outcome |-> o]
    /\ UNCHANGED <<agent, others, retrieval, examples, k_values, timeout, eval_results, errors,
                   ingestion, tracing>>

\* run_single_eval returns its EvalResult and run_all_evals appends it (lines
\* 408-415); an exception leaving run_single_eval ends the run.
AppendResult ==
    /\ run_state.pc = "build_result"
    /\ LET i == Len(eval_results) + 1
           r == run_single_eval(i, examples[i], run_state.outcome, k_values, timeout)
       IN  IF r.raised
           THEN /\ run_state' = [pc |-> "aborted", outcome |-> NoOutcome]
                /\ UNCHANGED eval_results
           ELSE /\ run_state' = [pc |-> "await_agent", outcome |-> NoOutcome]
                /\ eval_results' = Append(eval_results, r.result)
    /\ UNCHANGED <<agent, others, retrieval, examples, k_values, timeout, errors, ingestion, tracing>>

\* The error list of the report (lines 512-517).
CollectErrors(rs) ==
    LET failed == SelectSeq(rs, LAMBDA r : ~r.success)
    IN  [j \in 1..Len(failed) |-> [eval_id |-> failed[j].eval_id, error |-> failed[j].error]]

\* run_all_evals has returned; main builds the report (lines 481-538).
BuildReport ==
    /\ run_state.pc = "await_agent"
    /\ Len(eval_results) = Len(examples)
    /\ run_state' = [pc |-> "reported", outcome |-> NoOutcome]
    /\ errors' = CollectErrors(eval_results)
    /\ UNCHANGED <<agent, others, retrieval, examples, k_values, timeout, eval_results,
                   ingestion, tracing>>

\* ---------------------------------------------------------------- ingestion
\* A document is given by the number of chunks the chunker cuts from each of
\* its turns.  Rows are committed rows: a statement that raises inside
\* `with get_db_connection()` before conn.commit() leaves none.
DocShapes == {<<1>>, <<2>>, <<1, 1>>}

NoIngest == [pc |-> "idle", doc_id |-> 0, shape |-> <<>>, generate_embeddings |-> FALSE,
             turn |-> 0, inserted |-> 0, global_ord |-> 0]

\* ingest_with_turns is called for the next document (scrapers pipeline,
\* lines 146 and 266); a failed call is counted and the loop goes on.
StartIngest ==
    /\ ingest.pc \in {"idle", "done", "failed"}
    /\ ingest.doc_id < MaxDocs
    /\ \E sh \in DocShapes, ge \in BOOLEAN :
          ingest' = [pc |-> "insert_doc", doc_id |-> ingest.doc_id + 1, shape |-> sh,
                     generate_embeddings |-> ge, turn |-> 1, inserted |-> 0,
                     global_ord |-> 0]
    /\ UNCHANGED <<agent, others, retrieval, evaluation, docs, turns_table, chunks_table,
                   chunk_embeddings, tracing>>

\* _insert_podcast_document: execute_insert commits the docs row (lines 299-306).
InsertDocument ==
    /\ ingest.pc = "insert_doc"
    /\ docs' = docs \cup {ingest.doc_id}
    /\ ingest' = [ingest EXCEPT !.pc = "insert_turns"]
    /\ UNCHANGED <<agent, others, retrieval, evaluation, turns_table, chunks_table,
                   chunk_embeddings, tracing>>

\* _insert_turns: every turn in one transaction (lines 396-419).
InsertTurns ==
    /\ ingest.pc = "insert_turns"
    /\ turns_table' = turns_table \cup
          {[doc_id |-> ingest.doc_id, ord |-> t] : t \in 1..Len(ingest.shape)}
    /\ ingest' = [ingest EXCEPT !.pc = "insert_chunks"]
    /\ UNCHANGED <<agent, others, retrieval, evaluation, docs, chunks_table,
                   chunk_embeddings, tracing>>

\* _insert_chunk_with_turn: execute_insert commits one chunks row (lines
\* 323-334), then the loops move on.
InsertChunk ==
    /\ ingest.pc = "insert_chunks"
    /\ chunks_table' = chunks_table \cup
          {[doc_id |-> ingest.doc_id, turn |-> ingest.turn, ord |-> ingest.global_ord]}
    /\ LET last_of_turn == ingest.inserted + 1 = ingest.shape[ingest.turn]
           last_turn    == ingest.turn = Len(ingest.shape)
       IN  ingest' = [ingest EXCEPT
                        !.global_ord = @ + 1,
                        !.inserted = IF last_of_turn THEN 0 ELSE @ + 1,
                        !.turn = IF last_of_turn /\ ~last_turn THEN @ + 1 ELSE @,
                        !.pc = IF last_of_turn /\ last_turn THEN "embeddings" ELSE @]
    /\ UNCHANGED <<agent, others, retrieval, evaluation, docs, turns_table,
                   chunk_embeddings, tracing>>

\* Step 5 (lines 337-341): _generate_and_insert_embeddings embeds the batch
\* and inserts every embedding in one transaction; skipped when embeddings
\* are not enabled.
InsertEmbeddings ==
    /\ ingest.pc = "embeddings"
    /\ chunk_embeddings' =
          IF ingest.generate_embeddings
          THEN chunk_embeddings \cup
                 {[doc_id |-> c.doc_id, ord |-> c.ord] :
                     c \in {x \in chunks_table : x.doc_id = ingest.doc_id}}
          ELSE chunk_embeddings
    /\ ingest' = [ingest EXCEPT !.pc = "done"]
    /\ UNCHANGED <<agent, others, retrieval, evaluation, docs, turns_table, chunks_table, tracing>>

\* The current step raises (store or embedder error): its own transaction
\* commits nothing, ingest_with_turns has no handler, and the rows committed
\* by the earlier steps stay.
IngestFails ==
    /\ ingest.pc \in {"insert_doc", "insert_turns", "insert_chunks", "embeddings"}
    /\ ingest.pc = "embeddings" => ingest.generate_embeddings
    /\ ingest' = [ingest EXCEPT !.pc = "failed"]
    /\ UNCHANGED <<agent, others, retrieval, evaluation, docs, turns_table, chunks_table,
                   chunk_embeddings, tracing>>

\* ------------------------------------------------------------------ tracing
InitCallKinds == {"MultiQueryRAGAgent", "VanillaRAGAgent", "initialize_tracing"}
SettingsChoices == [langsmith_api_key : BOOLEAN, langsmith_tracing : BOOLEAN]

\* Variant: Settings has the attribute vanilla.py reads.
VanillaTracingConfiguredAttr(st) ==
    [raised |-> FALSE, value |-> st.langsmith_api_key /\ st.langsmith_tracing]

\* `settings.langsmith_api_key and settings.langsmith_tracing_enabled`
\* (vanilla.py line 101): Settings has no langsmith_tracing_enabled
\* (config.py lines 40-43), so reading it raises AttributeError once the key
\* is set.
VanillaTracingConfigured(st) ==
    [raised |-> st.langsmith_api_key, value |-> FALSE]

\* helpers.initialize_tracing (lines 91-109), also run by
\* MultiQueryRAGAgent.__init__ (multi_query.py line 144).
HelpersInitializeTracing(kind) ==
    /\ Len(init_calls) < MaxInitCalls
    /\ init_calls' = Append(init_calls, kind)
    /\ IF helpers_tracing_initialized
       THEN UNCHANGED <<helpers_tracing_initialized, processors_created, trace_processors>>
       ELSE /\ helpers_tracing_initialized' = TRUE
            /\ IF settings.langsmith_api_key /\ settings.langsmith_tracing
               THEN /\ processors_created' = processors_created + 1
                    /\ trace_processors' = <<processors_created + 1>>
               ELSE UNCHANGED <<processors_created, trace_processors>>
    /\ UNCHANGED <<agent, others, retrieval, evaluation, ingestion, settings,
                   vanilla_tracing_initialized>>

ConstructMultiQueryAgent == HelpersInitializeTracing("MultiQueryRAGAgent")

\* initialize_tracing() called by a runner or the harness (runner.py line 443).
CallInitializeTracing == HelpersInitializeTracing("initialize_tracing")

\* VanillaRAGAgent.__init__ runs vanilla._initialize_tracing (lines 89-107,
\* 146), which has a flag of its own.
ConstructVanillaAgent ==
    /\ Len(init_calls) < MaxInitCalls
    /\ init_calls' = Append(init_calls, "VanillaRAGAgent")
    /\ IF vanilla_tracing_initialized
       THEN UNCHANGED <<vanilla_tracing_initialized, processors_created, trace_processors>>
       ELSE LET configured == VanillaTracingConfigured(settings) IN
            IF configured.raised
            THEN UNCHANGED <<vanilla_tracing_initialized, processors_created,
                             trace_processors>>
            ELSE /\ vanilla_tracing_initialized' = TRUE
                 /\ IF configured.value
                    THEN /\ processors_created' = processors_created + 1
                         /\ trace_processors' = <<processors_created + 1>>
                    ELSE UNCHANGED <<processors_created, trace_processors>>
    /\ UNCHANGED <<agent, others, retrieval, evaluation, ingestion, settings,
                   helpers_tracing_initialized>>

\* --------------------------------------------------------- specifications
\* The parts of the process a specification does not exercise stay as they
\* are at process start.
NoDeadline == deadline = "none"

RetrievalIdle ==
    /\ corpus = [c \in ChunkIds |->
                   [rank |-> 0, embedded |-> FALSE, similarity |-> 0, published_at |-> 1]]
    /\ chunk_speaker = DefaultSpeakers
    /\ retrieval_params = [mode |-> "fts", n |-> 1, fts_candidates |-> 1,
                           filters |-> [start_date |-> 0, end_date |-> 0,
                                        speaker |-> <<>>]]
    /\ retrieval_response = NoRetrieval

EvalIdle ==
    /\ examples = <<>>
    /\ k_values = <<1>>
    /\ timeout = <<>>
    /\ eval_results = <<>>
    /\ run_state = [pc |-> "idle", outcome |-> NoOutcome]
    /\ errors = <<>>

IngestIdle ==
    /\ docs = {}
    /\ turns_table = {}
    /\ chunks_table = {}
    /\ chunk_embeddings = {}
    /\ ingest = NoIngest

TracingIdle ==
    /\ settings = [langsmith_api_key |-> FALSE, langsmith_tracing |-> FALSE]
    /\ helpers_tracing_initialized = FALSE
    /\ vanilla_tracing_initialized = FALSE
    /\ processors_created = 0
    /\ trace_processors = <<>>
    /\ init_calls = <<>>

MetricsIdle ==
    /\ metric_call = [retrieved |-> <<>>, ground_truth |-> <<>>, k |-> 1]
    /\ metric_result = NoMetrics

ScoringIdle ==
    /\ filter_case = [expected |-> NoFilters, actual |-> NoFilters]
    /\ filter_matches = NoMatches

ExpandIdle ==
    /\ turn_tokens = [t \in TurnIds |-> 60]
    /\ expand_call = [chunks |-> [c \in ExpandChunkSlots |-> [turn |-> 1, score |-> 70]],
                      token_budget |-> 100, include_preceding_question |-> FALSE]
    /\ expand_state = NoExpand

HttpIdle ==
    /\ http_route = "chat_completion"
    /\ http_runs = [r \in 1..2 |-> [kind |-> "none", text |-> "text1"]]
    /\ http_responses = [r \in 1..2 |-> NoHttpResponse]

VanillaIdle ==
    /\ vanilla_phase = "Idle"
    /\ vanilla_store = FanOutStore
    /\ question = "q1"
    /\ vanilla_tool_queries = <<>>
    /\ retrieved_chunks = <<>>
    /\ vanilla_response = NoVanillaResponse

ChunkerIdle ==
    /\ chunker_config = [min_tokens |-> 0, max_tokens |-> 1, overlap_tokens |-> 0]
    /\ num_tokens = 0
    /\ chunker_state = NoChunking

PoolIdle ==
    /\ pool = 0
    /\ open_pools = {}
    /\ pools_created = 0
    /\ pool_program = "calls"
    /\ pool_pc = "ended"
    /\ pool_calls = 0

OthersIdle ==
    /\ MetricsIdle /\ ScoringIdle /\ ExpandIdle /\ HttpIdle /\ VanillaIdle
    /\ ChunkerIdle /\ PoolIdle

\* No request is under way.
AgentIdle ==
    /\ InitOver({FanOutStore}, {"fts"}, {<<>>})
    /\ NoDeadline

\* Spec: every store, lexical retrieval, max_returned absent or 1, one tool
\* call.
Init ==
    /\ InitOver(ScoreTables, {"fts"}, MaxReturnedChoices)
    /\ NoDeadline /\ RetrievalIdle /\ EvalIdle /\ IngestIdle /\ TracingIdle /\ OthersIdle

Next ==
    \/ Start
    \/ \E qs \in QueryLists : ToolCall(qs, MaxCalls)
    \/ \E i \in 1..MAX_SUB_QUERIES + 1 : WorkerStep(i)
    \/ \E i \in 1..MAX_SUB_QUERIES + 1 : WorkerFinish(i)
    \/ \E i \in 1..MAX_SUB_QUERIES + 1 : WorkerFail(i)
    \/ Join
    \/ Merge
    \/ FinalAnswer
    \/ ModelError

Spec == Init /\ [][Next]_vars

\* SpecToolCalls: two stores, lexical retrieval, several tool calls.
InitToolCalls ==
    /\ InitOver({FanOutStore, SharedStore}, {"fts"}, MaxReturnedChoices)
    /\ NoDeadline /\ RetrievalIdle /\ EvalIdle /\ IngestIdle /\ TracingIdle /\ OthersIdle

NextToolCalls ==
    \/ Start
    \/ \E qs \in QueryLists : ToolCall(qs, MaxToolCalls)
    \/ \E i \in 1..MAX_SUB_QUERIES + 1 : WorkerStep(i)
    \/ \E i \in 1..MAX_SUB_QUERIES + 1 : WorkerFinish(i)
    \/ \E i \in 1..MAX_SUB_QUERIES + 1 : WorkerFail(i)
    \/ Join
    \/ Merge
    \/ FinalAnswer
    \/ ModelError

SpecToolCalls == InitToolCalls /\ [][NextToolCalls]_vars

\* SpecFanOut: one store, every retrieval mode, max_returned absent, long
\* query lists, one tool call.
InitFanOut ==
    /\ InitOver({FanOutStore}, Modes, {<<>>})
    /\ NoDeadline /\ RetrievalIdle /\ EvalIdle /\ IngestIdle /\ TracingIdle /\ OthersIdle

NextFanOut ==
    \/ Start
    \/ \E qs \in LongQueryLists : ToolCall(qs, MaxCalls)
    \/ \E i \in 1..MAX_SUB_QUERIES + 1 : WorkerStep(i)
    \/ \E i \in 1..MAX_SUB_QUERIES + 1 : WorkerFinish(i)
    \/ \E i \in 1..MAX_SUB_QUERIES + 1 : WorkerFail(i)
    \/ Join
    \/ Merge
    \/ FinalAnswer
    \/ ModelError

SpecFanOut == InitFanOut /\ [][NextFanOut]_vars

\* SpecDeadline: the request runs under the caller's wait_for; two stores,
\* every retrieval mode, short query lists, one tool call.
InitDeadline ==
    /\ InitOver({FanOutStore, SharedStore}, Modes, {<<>>})
    /\ deadline = "armed"
    /\ RetrievalIdle /\ EvalIdle /\ IngestIdle /\ TracingIdle /\ OthersIdle

NextDeadline ==
    \/ Start
    \/ \E qs \in QueryLists : ToolCall(qs, MaxCalls)
    \/ \E i \in 1..MAX_SUB_QUERIES + 1 : WorkerStep(i)
    \/ \E i \in 1..MAX_SUB_QUERIES + 1 : WorkerFinish(i)
    \/ \E i \in 1..MAX_SUB_QUERIES + 1 : WorkerFail(i)
    \/ Join
    \/ Merge
    \/ FinalAnswer
    \/ ModelError
    \/ DeadlineExpires
    \/ Cancel

SpecDeadline == InitDeadline /\ [][NextDeadline]_vars

\* SpecRetrieval: one retrieval over every corpus and every parameter record.
InitRetrieval ==
    /\ corpus \in Corpora
    /\ chunk_speaker = DefaultSpeakers
    /\ retrieval_params \in RetrievalParams
    /\ retrieval_response = NoRetrieval
    /\ AgentIdle /\ EvalIdle /\ IngestIdle /\ TracingIdle /\ OthersIdle

NextRetrieval == RetrieveChunks

SpecRetrieval == InitRetrieval /\ [][NextRetrieval]_vars

\* SpecSpeakerFilter: one retrieval with a speaker filter, over every
\* assignment of speakers to the chunks (all documents of one date).
InitSpeakerFilter ==
    /\ corpus \in {cp \in Corpora : \A c \in ChunkIds : cp[c].published_at = 1}
    /\ chunk_speaker \in [ChunkIds -> SpeakerNames]
    /\ retrieval_params \in [mode : Modes, n : 1..MaxN, fts_candidates : {MaxN},
                              filters : SpeakerFilterChoices]
    /\ retrieval_response = NoRetrieval
    /\ AgentIdle /\ EvalIdle /\ IngestIdle /\ TracingIdle /\ OthersIdle

NextSpeakerFilter == RetrieveChunks

SpecSpeakerFilter == InitSpeakerFilter /\ [][NextSpeakerFilter]_vars

\* SpecEval: one evaluation run over every dataset, k list and timeout.
InitEval ==
    /\ examples \in Datasets
    /\ k_values \in KValueChoices
    /\ timeout \in TimeoutChoices
    /\ eval_results = <<>>
    /\ run_state = [pc |-> "await_agent", outcome |-> NoOutcome]
    /\ errors = <<>>
    /\ AgentIdle /\ RetrievalIdle /\ IngestIdle /\ TracingIdle /\ OthersIdle

NextEval ==
    \/ AgentCallEnds
    \/ AppendResult
    \/ BuildReport

SpecEval == InitEval /\ [][NextEval]_vars

\* SpecIngest: documents ingested one after the other into an empty store.
InitIngest == AgentIdle /\ RetrievalIdle /\ EvalIdle /\ IngestIdle /\ TracingIdle /\ OthersIdle

NextIngest ==
    \/ StartIngest
    \/ InsertDocument
    \/ InsertTurns
    \/ InsertChunk
    \/ InsertEmbeddings
    \/ IngestFails

SpecIngest == InitIngest /\ [][NextIngest]_vars

\* SpecTracing: agent constructions and initialisation calls of one process
\* under every LangSmith configuration.
InitTracing ==
    /\ settings \in SettingsChoices
    /\ helpers_tracing_initialized = FALSE
    /\ vanilla_tracing_initialized = FALSE
    /\ processors_created = 0
    /\ trace_processors = <<>>
    /\ init_calls = <<>>
    /\ AgentIdle /\ RetrievalIdle /\ EvalIdle /\ IngestIdle /\ OthersIdle

NextTracing ==
    \/ ConstructMultiQueryAgent
    \/ ConstructVanillaAgent
    \/ CallInitializeTracing

SpecTracing == InitTracing /\ [][NextTracing]_vars

\* SpecMetrics: compute_retrieval_metrics on every pair of lists and every k.
InitMetrics ==
    /\ metric_call \in MetricCalls
    /\ metric_result = NoMetrics
    /\ AgentIdle /\ RetrievalIdle /\ EvalIdle /\ IngestIdle /\ TracingIdle
    /\ ScoringIdle /\ ExpandIdle /\ HttpIdle /\ VanillaIdle /\ ChunkerIdle /\ PoolIdle

NextMetrics == ComputeRetrievalMetrics

SpecMetrics == InitMetrics /\ [][NextMetrics]_vars

\* SpecFilterScoring: _compare_filters on every case of FilterCases.
InitFilterScoring ==
    /\ filter_case \in FilterCases
    /\ filter_matches = NoMatches
    /\ AgentIdle /\ RetrievalIdle /\ EvalIdle /\ IngestIdle /\ TracingIdle
    /\ MetricsIdle /\ ExpandIdle /\ HttpIdle /\ VanillaIdle /\ ChunkerIdle /\ PoolIdle

NextFilterScoring == CompareFilters

SpecFilterScoring == InitFilterScoring /\ [][NextFilterScoring]_vars

\* SpecExpand: one expansion over every token table, chunk list and budget.
InitExpand ==
    /\ turn_tokens \in [TurnIds -> TokenCounts]
    /\ expand_call \in ExpandCalls
    /\ expand_state = NoExpand
    /\ AgentIdle /\ RetrievalIdle /\ EvalIdle /\ IngestIdle /\ TracingIdle
    /\ MetricsIdle /\ ScoringIdle /\ HttpIdle /\ VanillaIdle /\ ChunkerIdle /\ PoolIdle

NextExpand == ExpandStart \/ ExpandStep

SpecExpand == InitExpand /\ [][NextExpand]_vars

\* SpecHttp: two requests per endpoint and kind of outcome.
InitHttp ==
    /\ http_route \in Routes
    /\ http_runs \in [1..2 -> [kind : ExceptionKinds, text : ExceptionTexts]]
    /\ http_runs[1].kind = http_runs[2].kind
    /\ http_responses = [r \in 1..2 |-> NoHttpResponse]
    /\ AgentIdle /\ RetrievalIdle /\ EvalIdle /\ IngestIdle /\ TracingIdle
    /\ MetricsIdle /\ ScoringIdle /\ ExpandIdle /\ VanillaIdle /\ ChunkerIdle /\ PoolIdle

NextHttp == \E r \in 1..2 : Respond(r)

SpecHttp == InitHttp /\ [][NextHttp]_vars

\* SpecVanilla: one request to the vanilla agent over every store and
\* question.
InitVanilla ==
    /\ vanilla_phase = "Idle"
    /\ vanilla_store \in ScoreTables
    /\ question \in QueryStrings
    /\ vanilla_tool_queries = <<>>
    /\ retrieved_chunks = <<>>
    /\ vanilla_response = NoVanillaResponse
    /\ AgentIdle /\ RetrievalIdle /\ EvalIdle /\ IngestIdle /\ TracingIdle
    /\ MetricsIdle /\ ScoringIdle /\ ExpandIdle /\ HttpIdle /\ ChunkerIdle /\ PoolIdle

NextVanilla ==
    \/ VanillaStart
    \/ \E q \in QueryStrings : RetrieveContext(q)
    \/ VanillaFinalAnswer
    \/ VanillaModelError

SpecVanilla == InitVanilla /\ [][NextVanilla]_vars

\* SpecChunker: chunk() over every configuration and text length.
InitChunker ==
    /\ chunker_config \in ChunkerConfigs
    /\ num_tokens \in 0..MaxDocTokens
    /\ chunker_state = NoChunking
    /\ AgentIdle /\ RetrievalIdle /\ EvalIdle /\ IngestIdle /\ TracingIdle
    /\ MetricsIdle /\ ScoringIdle /\ ExpandIdle /\ HttpIdle /\ VanillaIdle /\ PoolIdle

NextChunker == ChunkStart \/ ChunkIteration

SpecChunker == InitChunker /\ [][NextChunker]_vars

\* SpecPool: the programs that open and close the connection pool.
InitPool ==
    /\ pool = 0
    /\ open_pools = {}
    /\ pools_created = 0
    /\ pool_program \in PoolPrograms
    /\ pool_pc = "start"
    /\ pool_calls = 0
    /\ AgentIdle /\ RetrievalIdle /\ EvalIdle /\ IngestIdle /\ TracingIdle
    /\ MetricsIdle /\ ScoringIdle /\ ExpandIdle /\ HttpIdle /\ VanillaIdle /\ ChunkerIdle

NextPool ==
    \/ CallInit
    \/ CallClose
    \/ CallsEnd
    \/ LifespanStartup
    \/ \E outcome \in Outcomes : LifespanShutdown(outcome)
    \/ RunnerInit
    \/ \E outcome \in Outcomes : RunnerVerify(outcome)
    \/ \E outcome \in Outcomes : RunnerBody(outcome)

SpecPool == InitPool /\ [][NextPool]_vars


\* ================================================================= claims
ChunkIdsOf(chunks) == {chunks[i].chunk_id : i \in 1..Len(chunks)}

\* The merged chunks of the recorded results, ordered by score descending
\* and, among equal scores, by chunk identifier ascending.
RECURSIVE SortByScoreThenId(_)
SortByScoreThenId(S) ==
    IF S = {} THEN <<>>
    ELSE LET best == CHOOSE x \in S : \A y \in S :
                        x.score > y.score \/ (x.score = y.score /\ x.chunk_id <= y.chunk_id)
         IN  <<best>> \o SortByScoreThenId(S \ {best})

\* The results dict when the futures are collected in submission order.
RECURSIVE CollectInOrder(_, _)
CollectInOrder(d, qs) ==
    IF qs = <<>> THEN d
    ELSE CollectInOrder(DictSet(d, Head(qs), retrieve_chunks(store, Head(qs), max_returned)),
                        Tail(qs))

\* Every recorded result is what the store returns for its query (no
\* sub-query failure is visible in the recorded results).
NoFailureRecorded ==
    \A i \in 1..Len(all_results_by_query) :
        all_results_by_query[i].chunks =
            retrieve_chunks(store, all_results_by_query[i].query, max_returned)

\* The step on which the tool call returns its merged result.
MergeStep == phase = "Merging" /\ phase' = "Synthesizing"

\* The result of worker i as retrieve_one returned it.
Returned(i) ==
    IF futures[i].state = "ok"
    THEN retrieve_chunks(store, futures[i].query, max_returned)
    ELSE <<>>

\* C1: for a given store, sub-query list and parameters, the final ordered
\* chunk list does not depend on the order in which the sub-query retrievals
\* complete: after a tool call without failures it is the list obtained when
\* the retrievals complete in submission order.
C1_DeterministicOrder ==
    (phase = "Synthesizing" /\ NoFailureRecorded)
        => final_deduplicated_chunks =
             DeduplicateChunks(CollectInOrder(<<>>, captured_sub_queries), max_returned).chunks

\* C2: when a sub-query retrieval raises, the tool call returns with that
\* sub-query recorded with an empty result and present in sub_queries, and
\* with the result of every other sub-query recorded for merging.
C2_FailureIsolation ==
    [][MergeStep =>
        \A i \in 1..Len(futures) :
            /\ futures[i].query \in Range(captured_sub_queries')
            /\ futures[i].query \in Keys(all_results_by_query')
            /\ Lookup(all_results_by_query', futures[i].query) = Returned(i)]_vars

\* C3: the merged list is sorted by merged score descending, ties by chunk
\* identifier ascending, and is exactly the first max_returned chunks of
\* that order.
C3_SortedWithIdTieBreak ==
    final_deduplicated_chunks =
        Take(SortByScoreThenId(Range(Boosted(ChunkMap(all_results_by_query)))), max_returned)

\* C4: each chunk identifier occurs at most once in the returned list, and
\* every returned chunk occurs in the recorded result of some sub-query.
C4_UniqueAndFromResults ==
    /\ \A i, j \in 1..Len(final_deduplicated_chunks) :
          final_deduplicated_chunks[i].chunk_id = final_deduplicated_chunks[j].chunk_id
              => i = j
    /\ \A i \in 1..Len(final_deduplicated_chunks) :
          \E k \in 1..Len(all_results_by_query) :
              final_deduplicated_chunks[i].chunk_id
                  \in ChunkIdsOf(all_results_by_query[k].chunks)

\* A merge in which a chunk returned by two sub-queries was returned once.
C4_Witness ==
    /\ final_deduplicated_chunks # <<>>
    /\ \E c \in ChunkIdsOf(final_deduplicated_chunks) :
          Cardinality({k \in 1..Len(all_results_by_query) :
                          c \in ChunkIdsOf(all_results_by_query[k].chunks)}) = 2

\* The score of chunk c in a result list that contains it.
ScoreIn(chunks, c) ==
    chunks[CHOOSE r \in 1..Len(chunks) : chunks[r].chunk_id = c].score

SetMax(S) == CHOOSE v \in S : \A w \in S : v >= w

\* C5: a chunk returned by k of the dispatched sub-queries with highest
\* score s among them has merged score s * (1 + 0.2 * (k - 1)).
C5_BoostByDispatchedCount ==
    [][MergeStep =>
        \A j \in 1..Len(final_deduplicated_chunks') :
            LET c    == final_deduplicated_chunks'[j].chunk_id
                hits == {i \in 1..Len(futures) : c \in ChunkIdsOf(Returned(i))}
                k    == Cardinality(hits)
                s    == SetMax({ScoreIn(Returned(i), c) : i \in hits})
            IN  /\ k >= 1
                /\ final_deduplicated_chunks'[j].score * 10 = s * (10 + 2 * (k - 1))]_vars

\* C6: unique_chunks <= total_before_dedup, duplicates_removed =
\* total_before_dedup - unique_chunks >= 0, and chunks_returned <=
\* min(unique_chunks, max_returned).
C6_StatsInvariant ==
    /\ dedup_stats.unique_chunks <= dedup_stats.total_before_dedup
    /\ dedup_stats.duplicates_removed
          = dedup_stats.total_before_dedup - dedup_stats.unique_chunks
    /\ dedup_stats.duplicates_removed >= 0
    /\ dedup_stats.chunks_returned <= Min(dedup_stats.unique_chunks, max_returned)
    /\ dedup_stats.chunks_returned = Len(final_deduplicated_chunks)

\* A merge of several occurrences whose list was cut to max_returned.
C6_Witness ==
    /\ dedup_stats.total_before_dedup >= 2
    /\ dedup_stats.chunks_returned < dedup_stats.unique_chunks
    /\ dedup_stats.chunks_returned = max_returned

\* C7: of a list of more than 5 sub-queries exactly the first 5, in the
\* order supplied, are dispatched and recorded as sub_queries; no tool call
\* dispatches more than 5 retrievals.
C7_TruncateToFive ==
    /\ Len(futures) <= MAX_SUB_QUERIES
    /\ phase = "Retrieving" =>
          /\ Len(futures) = Min(Len(supplied), MAX_SUB_QUERIES)
          /\ \A i \in 1..Len(futures) : futures[i].query = supplied[i]
          /\ captured_sub_queries = [i \in 1..Len(futures) |-> supplied[i]]

\* A call with more than 5 sub-queries whose retrievals are running.
C7_Witness ==
    /\ phase = "Retrieving"
    /\ Len(supplied) > MAX_SUB_QUERIES
    /\ Len(futures) = MAX_SUB_QUERIES

\* C8: a tool call with zero queries returns an error to the model and
\* dispatches no retrieval; it is the model's turn again, so that it can
\* issue a further tool call.
C8_EmptyCallRejected ==
    [][(tool_calls' = tool_calls + 1 /\ supplied' = <<>>) =>
          /\ tool_output' = "error"
          /\ futures' = futures
          /\ results' = results
          /\ phase' = phase
          /\ phase' \in {"Decomposing", "Synthesizing"}]_vars

\* A further tool call is being processed after a rejected one: its
\* retrievals run while the last tool output is still the error.
C8_Witness ==
    /\ phase = "Retrieving"
    /\ tool_output = "error"
    /\ tool_calls = MaxToolCalls
    /\ Running(futures) # {}

\* C9: the sub-query retrievals running at any moment number at most the
\* accepted sub-queries, hence at most 5, and none is running once the
\* executor has been left.
C9_BoundedWorkers ==
    /\ Cardinality(Running(futures)) <= Len(captured_sub_queries)
    /\ Cardinality(Running(futures)) <= MAX_SUB_QUERIES
    /\ phase # "Retrieving" => Running(futures) = {}

\* Five retrievals running at once.
C9_Witness == Cardinality(Running(futures)) = MAX_SUB_QUERIES

\* C10 as stated: a request never holds more than one store connection.
C10_OneConnectionPerRequest == ConnectionsHeld(futures) <= 1

\* C10 amended: each sub-query retrieval holds at most one connection at a
\* time, and a request holds at most one per accepted sub-query (at most 5),
\* within the pool's maximum.
C10_OneConnectionPerWorker ==
    /\ \A i \in 1..Len(futures) : futures[i].held <= 1
    /\ ConnectionsHeld(futures) <= Len(captured_sub_queries)
    /\ ConnectionsHeld(futures) <= MAX_SUB_QUERIES
    /\ ConnectionsHeld(futures) <= POOL_MAX_SIZE

\* A hybrid fan-out whose five workers each hold a connection, one of them
\* for its rerank query.
C10_Witness ==
    /\ mode = "hybrid"
    /\ ConnectionsHeld(futures) = MAX_SUB_QUERIES
    /\ \E i \in 1..Len(futures) : futures[i].pc = 3

\* A worker is inside `with get_db_connection()`.
InScope(f) == f.state = "running" /\ f.pc >= 1 /\ Steps(mode)[f.pc] \in ConnSteps

\* C11: a connection taken through the scoped handle is held exactly while
\* its scope is being executed: it is back in the pool after the scope's
\* normal end, after an error raised inside it, and when the caller's
\* deadline has expired meanwhile; a request that has ended holds none.
C11_ScopedRelease ==
    /\ \A i \in 1..Len(futures) : futures[i].held = IF InScope(futures[i]) THEN 1 ELSE 0
    /\ phase \in {"Merging", "Synthesizing", "Done", "Failed", "Timeout"}
          => ConnectionsHeld(futures) = 0

\* After the deadline has expired, one retrieval has raised inside its scope
\* and one has returned, and neither holds a connection.
C11_Witness ==
    /\ deadline = "expired"
    /\ phase = "Retrieving"
    /\ \E i, j \in 1..Len(futures) :
          /\ futures[i].state = "failed"
          /\ futures[i].pc >= 1
          /\ Steps(mode)[futures[i].pc] \in ConnSteps
          /\ futures[j].state = "ok"
          /\ futures[j].pc = Len(Steps(mode))

\* C12: once the caller's deadline has expired while sub-query retrievals
\* are in flight, these are stopped: none of them starts a further step or
\* has its result recorded, and no response is built for the request.
C12_StopOnExpiry ==
    [][(deadline = "expired" /\ phase = "Retrieving") =>
          /\ Len(futures') = Len(futures)
          /\ \A i \in 1..Len(futures) :
                /\ futures'[i].pc = futures[i].pc
                /\ futures'[i].state = "ok" => futures[i].state = "ok"
          /\ ~response'.built]_vars

\* The metrics of one k are those of an empty retrieval: every ratio is 0,
\* nothing was retrieved, and the reciprocal rank is undefined.
ZeroValued(m) ==
    /\ m.recall_at_k = 0
    /\ m.precision_at_k = 0
    /\ m.hit_rate = 0
    /\ m.ndcg_at_k = 0
    /\ m.mrr = <<>>
    /\ m.num_retrieved = 0
    /\ m.num_relevant_retrieved = 0

\* C13: when the agent call of an item ends by the per-item timeout, the
\* item's result record has success = false, error = "timeout", an empty
\* retrieved list and, for every configured k, zero-valued metrics.
C13_TimeoutRecord ==
    [][(run_state.pc = "build_result" /\ run_state.outcome.kind = "timeout") =>
          /\ Len(eval_results') = Len(eval_results) + 1
          /\ LET r == eval_results'[Len(eval_results')] IN
                /\ r.success = FALSE
                /\ r.error = "timeout"
                /\ r.retrieved_chunk_ids = <<>>
                /\ Len(r.metrics_by_k) = Len(k_values)
                /\ \A j \in 1..Len(k_values) :
                      /\ r.metrics_by_k[j].k = k_values[j]
                      /\ ZeroValued(r.metrics_by_k[j])]_vars

\* The second item timed out after the first had retrieved a ground-truth
\* chunk, with two configured k.
C13_Witness ==
    /\ Len(eval_results) = 2
    /\ eval_results[2].error = "timeout"
    /\ examples[2] # <<>>
    /\ Len(k_values) = 2
    /\ eval_results[1].success
    /\ eval_results[1].metrics_by_k[1].hit_rate > 0

\* C14: whatever the agent call of an item ends with, the run is not
\* aborted: the item's result is appended after those of the items before
\* it and the runner turns to the next item; when the report is built there
\* is one result per item, in dataset order, and the error list names
\* exactly the items with success = false.
C14_RunContinues ==
    [][/\ run_state'.pc # "aborted"
       /\ run_state.pc = "build_result" =>
             /\ run_state'.pc = "await_agent"
             /\ Len(eval_results') = Len(eval_results) + 1
             /\ SubSeq(eval_results', 1, Len(eval_results)) = eval_results
             /\ eval_results'[Len(eval_results')].eval_id = Len(eval_results) + 1
       /\ run_state'.pc = "reported" =>
             /\ Len(eval_results') = Len(examples)
             /\ \A i \in 1..Len(examples) : eval_results'[i].eval_id = i
             /\ {errors'[j].eval_id : j \in 1..Len(errors')}
                   = {i \in 1..Len(eval_results') : ~eval_results'[i].success}
             /\ Len(errors') = Cardinality({i \in 1..Len(eval_results') :
                                              ~eval_results'[i].success})]_vars

\* A reported run whose first item raised and whose second item succeeded.
C14_Witness ==
    /\ run_state.pc = "reported"
    /\ Len(eval_results) = 2
    /\ eval_results[1].error = "exception"
    /\ eval_results[2].success
    /\ Len(errors) = 1

C16_AtomicIngestion ==
    ingest.pc = "failed" =>
        /\ {c \in chunks_table : c.doc_id = ingest.doc_id} = {}
        /\ {e \in chunk_embeddings : e.doc_id = ingest.doc_id} = {}

C19_HybridRerank ==
    LET candidates == FtsRetrieve(corpus, retrieval_params.fts_candidates,
                                  retrieval_params.filters)
        embedded   == {c \in ChunkIdsOf(candidates) : corpus[c].embedded}
        out        == retrieval_response.chunks
    IN  (retrieval_params.mode = "hybrid" /\ retrieval_response.status # "none"
            /\ candidates # <<>>) =>
            /\ retrieval_response.status = "ok"
            /\ ChunkIdsOf(out) \subseteq embedded
            /\ Len(out) = Min(retrieval_params.n, Cardinality(embedded))
            /\ Cardinality(ChunkIdsOf(out)) = Len(out)
            /\ \A i \in 1..Len(out) : out[i].score = corpus[out[i].chunk_id].similarity
            /\ \A c \in embedded \ ChunkIdsOf(out) :
                  \A i \in 1..Len(out) : corpus[c].similarity <= out[i].score

\* C20: with a date filter, a returned chunk's document was published in
\* the half-open range [start_date, end_date).
C20_HalfOpenRange ==
    retrieval_response.status = "ok" =>
        \A i \in 1..Len(retrieval_response.chunks) :
            LET published == corpus[retrieval_response.chunks[i].chunk_id].published_at
            IN  /\ retrieval_params.filters.start_date # 0
                      => published >= retrieval_params.filters.start_date
                /\ retrieval_params.filters.end_date # 0
                      => published < retrieval_params.filters.end_date

\* C21: with a speaker filter, every returned chunk's speaker contains the
\* filter value as a case-insensitive substring; a value that matches no
\* speaker yields an empty result.
C21_SpeakerFilter ==
    LET value == retrieval_params.filters.speaker
        out   == retrieval_response.chunks
    IN  (retrieval_response.status = "ok" /\ value # <<>>) =>
            \A i \in 1..Len(out) :
                IsSubstring(LowerStr(value), LowerStr(chunk_speaker[out[i].chunk_id]))

\* C22: for any retrieved list, any ground-truth list and any k >= 1,
\* Recall@k, Precision@k, HitRate@k and NDCG@k lie in [0, 1] (0..1000 in
\* thousandths).
C22_MetricsInUnitInterval ==
    metric_result.status = "ok" =>
        \A v \in {metric_result.metrics.recall_at_k, metric_result.metrics.precision_at_k,
                   metric_result.metrics.hit_rate, metric_result.metrics.ndcg_at_k} :
            0 <= v /\ v <= 1000

\* C23: if no retrieved identifier belongs to the ground truth, Recall@k,
\* Precision@k, HitRate@k and NDCG@k are all 0 and MRR is None, never 0.
C23_NoOverlap ==
    (metric_result.status = "ok"
        /\ Range(metric_call.retrieved) \cap Range(metric_call.ground_truth) = {}) =>
        /\ metric_result.metrics.recall_at_k = 0
        /\ metric_result.metrics.precision_at_k = 0
        /\ metric_result.metrics.hit_rate = 0
        /\ metric_result.metrics.ndcg_at_k = 0
        /\ metric_result.metrics.mrr = <<>>

\* Metrics were computed for non-empty lists that share no identifier.
C23_Witness ==
    /\ metric_result.status = "ok"
    /\ metric_call.retrieved # <<>>
    /\ metric_call.ground_truth # <<>>
    /\ Range(metric_call.retrieved) \cap Range(metric_call.ground_truth) = {}

\* C24: when the expected and the actual value are both present, each of
\* speaker, source and doc_type counts as a match iff one value is a
\* case-insensitive substring of the other, in either direction.
C24_SubstringEitherWay ==
    filter_matches.status = "done" =>
        \A f \in {"speaker", "source", "doc_type"} :
            LET e == filter_case.expected[f]
                a == filter_case.actual[f]
            IN  (e # <<>> /\ a # <<>>) =>
                    (filter_matches.matches[f] <=>
                        \/ IsSubstring(LowerStr(e[1]), LowerStr(a[1]))
                        \/ IsSubstring(LowerStr(a[1]), LowerStr(e[1])))

RECURSIVE SumTurnCost(_)
SumTurnCost(views) ==
    IF views = <<>> THEN 0
    ELSE TurnCost(Head(views).turn, turn_tokens, expand_call.include_preceding_question)
            + SumTurnCost(Tail(views))

\* C25: the expander takes turns in descending score order while the
\* cumulative token count stays within token_budget and stops at the first
\* turn that would exceed it, never skipping it to take a later one; the
\* total of the returned turns never exceeds token_budget.
C25_BudgetCutoff ==
    LET taken == expand_state.turns
        left  == expand_state.pending
    IN  expand_state.pc = "done" =>
            /\ expand_state.total_tokens = SumTurnCost(taken)
            /\ expand_state.total_tokens <= expand_call.token_budget
            /\ \A i, j \in 1..Len(taken) : i < j => taken[i].score >= taken[j].score
            /\ \A i \in 1..Len(taken) : \A j \in 1..Len(left) :
                  taken[i].score >= left[j].score
            /\ Range(taken) \cup Range(left) = TurnViews(expand_call.chunks)
            /\ Len(taken) + Len(left) = Cardinality(TurnViews(expand_call.chunks))
            /\ left # <<>> =>
                  expand_state.total_tokens
                     + TurnCost(Head(left).turn, turn_tokens,
                                expand_call.include_preceding_question)
                        > expand_call.token_budget

\* An expansion stopped at a turn that does not fit although a later,
\* cheaper turn would have fitted.
C25_Witness ==
    /\ expand_state.pc = "done"
    /\ expand_state.turns # <<>>
    /\ Len(expand_state.pending) >= 2
    /\ \E j \in 2..Len(expand_state.pending) :
          expand_state.total_tokens
             + TurnCost(expand_state.pending[j].turn, turn_tokens,
                        expand_call.include_preceding_question)
                <= expand_call.token_budget

\* C26: an unexpected internal error of an HTTP request is answered with
\* status 500 and a generic message: two requests to the same endpoint that
\* fail with internal exceptions of different text get the same body.
C26_GenericInternalError ==
    (/\ http_runs[1].kind = "Exception"
     /\ http_responses[1] # NoHttpResponse
     /\ http_responses[2] # NoHttpResponse) =>
        /\ http_responses[1].status = 500
        /\ http_responses[2].status = 500
        /\ http_responses[1].detail = http_responses[2].detail

\* C27: the vanilla agent's retrieved_chunks are the result of exactly one
\* retrieval whose query is the original question, with the retriever's
\* scores unchanged.
C27_OneRetrievalOfQuestion ==
    vanilla_response.built =>
        /\ vanilla_tool_queries = <<question>>
        /\ vanilla_response.retrieved_chunks
              = retrieve_chunks(vanilla_store, question, VANILLA_DEFAULT_MAX_RETURNED)

\* The response's fields describe one tool call: the sub-queries are the
\* keys of the per-query results, the counts are those of these results,
\* and the statistics and the chunks are their deduplication.
DescribesOneCall ==
    response.built =>
        /\ Range(response.sub_queries) = Keys(all_results_by_query)
        /\ response.chunks_per_subquery = ChunksPerSubquery(all_results_by_query)
        /\ response.retrieved_chunks
              = DeduplicateChunks(all_results_by_query, max_returned).chunks
        /\ response.deduplication_stats
              = DeduplicateChunks(all_results_by_query, max_returned).stats
        /\ Validate(supplied).ok => response.sub_queries = Validate(supplied).queries

\* A tool call that is rejected leaves the closure state as it is.
RejectedCallChangesNothing ==
    (tool_calls' = tool_calls + 1 /\ ~Validate(supplied').ok) => UNCHANGED closure

\* C28: with several tool calls in one request the response's sub_queries,
\* chunks_per_subquery, deduplication_stats and retrieved_chunks describe one
\* and the same tool call, the last accepted one, and a rejected empty call
\* changes none of them.
C28_LastAcceptedCall == []DescribesOneCall /\ [][RejectedCallChangesNothing]_vars

\* A response was built after an accepted call followed by a rejected empty
\* call.
C28_Witness ==
    /\ response.built
    /\ tool_calls = 2
    /\ supplied = <<>>
    /\ response.sub_queries # <<>>
    /\ response.retrieved_chunks # <<>>

\* C29: for max_tokens >= 1 and overlap_tokens >= 0 the start index
\* strictly increases on every iteration of chunk's loop that goes on to
\* another iteration (so the loop terminates).
C29_StartIndexIncreases ==
    [][(chunker_state.pc = "loop" /\ chunker_state'.pc = "loop")
          => chunker_state'.start_idx > chunker_state.start_idx]_vars

\* C30: every pool opened by init_db_pool is closed before another pool
\* replaces it and before the program ends: the only pool that may be open is
\* the one _pool refers to, and none is open once the program has ended.
C30_NoPoolLeftOpen ==
    /\ open_pools \subseteq {pool}
    /\ pool_pc = "ended" => open_pools = {}

====
